---- MODULE Spec2Model ----
(***************************************************************************)
(* Model of the LDAP identity resolver (privacyidea/lib/resolvers/         *)
(* LDAPIdResolver.py, class IdResolver).                                   *)
(*                                                                         *)
(* The resolver object is the state: the bound flag, the cached            *)
(* service-account connection self.l and the loaded configuration.  Every  *)
(* public method is one action.  The directory server (the ldap3 library)  *)
(* is the environment: each of its calls may succeed, be refused or raise, *)
(* and a search may answer with any list of entries.  The outcome of the   *)
(* last call (return value or exception, and the library calls it made)    *)
(* is kept in res until the caller takes it.  The calls act on one object; *)
(* a second object of the class is kept beside it, and the caller can turn *)
(* to it between two calls.                                                *)
(***************************************************************************)
EXTENDS Integers, Sequences, FiniteSets, TLC

VARIABLES
    i_am_bound,   \* self.i_am_bound
    l,            \* self.l, the cached service-account connection
    authtype,     \* self.authtype
    uidtype,      \* self.uidtype
    noreferrals,  \* self.noreferrals
    sizelimit,    \* self.sizelimit
    res,          \* outcome of the last facade call, NoRes once taken
    other         \* the fields of a second resolver object

vars == <<i_am_bound, l, authtype, uidtype, noreferrals, sizelimit, res, other>>

(***************************************************************************)
(* Bounds of the model.                                                    *)
(***************************************************************************)
\* largest configured SIZELIMIT
MaxSizeLimit == 2
\* most entries the response to one search carries
MaxResponse == 2
\* most entries one paged stream carries
MaxStream == 3

(***************************************************************************)
(* Python values.  A str is Str (an atomic text) or CStr (a text kept as   *)
(* its characters, used where the code computes on the characters).        *)
(***************************************************************************)
None == [t |-> "none"]
Str(s) == [t |-> "str", s |-> s]
CStr(c) == [t |-> "cstr", c |-> c]
Bytes(b) == [t |-> "bytes", b |-> b]
List(e) == [t |-> "list", e |-> e]
PyInt(n) == [t |-> "int", n |-> n]

\* Python truth value: `not v` is ~Truthy(v)
Truthy(v) ==
    CASE v.t = "none" -> FALSE
      [] v.t = "str" -> v.s # ""
      [] v.t = "cstr" -> Len(v.c) > 0
      [] v.t = "bytes" -> Len(v.b) > 0
      [] v.t = "list" -> Len(v.e) > 0
      [] OTHER -> TRUE

\* dict.get(key): the value, or None when the key is absent
Get(d, k) == IF k \in DOMAIN d THEN d[k] ELSE None

\* str.lower() on the identifier-type names the model configures
Lower(s) ==
    CASE s = "DN" -> "dn"
      [] s = "Dn" -> "dn"
      [] s = "dN" -> "dn"
      [] s = "objectGUID" -> "objectguid"
      [] OTHER -> s

(***************************************************************************)
(* GUID conversions (uuid.UUID and ldap3's escape_bytes).                  *)
(***************************************************************************)
HexDigits == <<"0", "1", "2", "3", "4", "5", "6", "7",
               "8", "9", "a", "b", "c", "d", "e", "f">>

HexByte(n) == <<HexDigits[(n \div 16) + 1], HexDigits[(n % 16) + 1]>>

RECURSIVE HexOf(_)
HexOf(bs) == IF bs = <<>> THEN <<>> ELSE HexByte(Head(bs)) \o HexOf(Tail(bs))

\* UUID(bytes_le=b).bytes and UUID(bytes=b).bytes_le: the same permutation
SwapLe(b) ==
    <<b[4], b[3], b[2], b[1], b[6], b[5], b[8], b[7]>> \o SubSeq(b, 9, 16)

\* str(uuid.UUID(bytes_le=v)): raises unless v is a 16-byte string
UUIDFromBytesLe(v) ==
    IF v.t = "bytes" /\ Len(v.b) = 16
    THEN LET h == HexOf(SwapLe(v.b)) IN
         [exc |-> "",
          val |-> CStr(SubSeq(h, 1, 8) \o <<"-">> \o SubSeq(h, 9, 12) \o <<"-">>
                       \o SubSeq(h, 13, 16) \o <<"-">> \o SubSeq(h, 17, 20)
                       \o <<"-">> \o SubSeq(h, 21, 32))]
    ELSE [exc |-> IF v.t = "none" THEN "TypeError" ELSE "ValueError",
          val |-> None]

HexValue(c) ==
    IF \E i \in 1..16 : HexDigits[i] = c
    THEN (CHOOSE i \in 1..16 : HexDigits[i] = c) - 1
    ELSE -1

RECURSIVE UnHex(_)
UnHex(h) ==
    IF Len(h) < 2 THEN <<>>
    ELSE <<16 * HexValue(h[1]) + HexValue(h[2])>> \o UnHex(SubSeq(h, 3, Len(h)))

\* the text read as big-endian bytes (UUID.bytes where the code has bytes_le)
UUIDFromTextBigEndian(v) ==
    IF v.t = "cstr"
    THEN LET h == SelectSeq(v.c, LAMBDA c : c # "-") IN
         IF Len(h) = 32 /\ \A i \in 1..32 : HexValue(h[i]) >= 0
         THEN [exc |-> "", val |-> Bytes(UnHex(h))]
         ELSE [exc |-> "ValueError", val |-> None]
    ELSE [exc |-> "ValueError", val |-> None]

\* uuid.UUID("{%s}" % userId).bytes_le: the text without hyphens must be
\* 32 hexadecimal digits
UUIDFromText(v) ==
    IF v.t = "cstr"
    THEN LET h == SelectSeq(v.c, LAMBDA c : c # "-") IN
         IF Len(h) = 32 /\ \A i \in 1..32 : HexValue(h[i]) >= 0
         THEN [exc |-> "", val |-> Bytes(SwapLe(UnHex(h)))]
         ELSE [exc |-> "ValueError", val |-> None]
    ELSE [exc |-> "ValueError", val |-> None]

\* ldap3.utils.conv.escape_bytes: backslash and two hex digits per byte
RECURSIVE EscapeBytesSeq(_)
EscapeBytesSeq(bs) ==
    IF bs = <<>> THEN <<>>
    ELSE <<"\\">> \o HexByte(Head(bs)) \o EscapeBytesSeq(Tail(bs))

escape_bytes(v) == CStr(EscapeBytesSeq(v.b))

(***************************************************************************)
(* The fixed part of the loaded configuration.                             *)
(***************************************************************************)
binddn == Str("cn=admin,o=org")
bindpw == Str("adminpw")
basedn == Str("o=org")
searchfilter == "(cn=*)"
loginname_attribute == "cn"
\* the scope of every search: ldap3.SUBTREE unless SCOPE is configured
scope == Str("SUBTREE")
\* USERINFO: canonical field -> directory attribute
userinfo ==
    [username |-> "cn", mobile |-> "telephoneNumber", accountExpires |-> "accountExpires"]

AuthTypes == {"Simple", "NTLM", "SASL Digest-MD5", "Kerberos"}
UidTypes == {"DN", "uid", "objectGUID"}

(***************************************************************************)
(* Directory entries a server can answer with.                             *)
(***************************************************************************)
GuidAlice == <<120, 86, 52, 18, 171, 144, 239, 205, 1, 35, 69, 103, 137, 171, 205, 239>>

\* an entry as ldap3 returns it: every attribute a list of values
EAlice ==
    [type |-> "searchResEntry", dn |-> Str("cn=alice,o=org"),
     attributes |-> [cn |-> List(<<Str("alice"), Str("alice2")>>),
                     telephoneNumber |-> List(<<Str("+1"), Str("+2")>>),
                     uid |-> List(<<Str("1001")>>),
                     objectGUID |-> List(<<Bytes(GuidAlice)>>)]]

\* an entry with scalar attributes, no phone number and a truncated GUID
EBob ==
    [type |-> "searchResEntry", dn |-> Str("cn=bob,o=org"),
     attributes |-> [cn |-> Str("bob"),
                     uid |-> Str("1002"),
                     objectGUID |-> Bytes(<<1, 2, 3>>)]]

\* a referral: neither dn nor attributes
ERef == [type |-> "searchResRef", uri |-> List(<<Str("ldap://other/o=org")>>)]

Entries == {EAlice, EBob, ERef}

RECURSIVE SeqsUpTo(_, _)
SeqsUpTo(S, n) ==
    IF n = 0 THEN {<<>>}
    ELSE LET shorter == SeqsUpTo(S, n - 1) IN
         shorter \cup {Append(s, e) : s \in {x \in shorter : Len(x) = n - 1}, e \in S}

\* every response a server can give to one search
Responses == SeqsUpTo(Entries, MaxResponse)
\* every stream of entries a server can give to one paged search
Streams == SeqsUpTo(Entries, MaxStream)

\* get_ad_timestamp_now(): the current time in the unit of accountExpires
AdTimestampNow == 2

\* the content of a directory with accounts that never expire, have
\* expired, and expire later
ENever ==
    [type |-> "searchResEntry", dn |-> Str("cn=never,o=org"),
     attributes |-> [cn |-> Str("never"), uid |-> Str("2001"), accountExpires |-> PyInt(0)]]
EExpired ==
    [type |-> "searchResEntry", dn |-> Str("cn=expired,o=org"),
     attributes |-> [cn |-> Str("expired"), uid |-> Str("2002"),
                     accountExpires |-> PyInt(AdTimestampNow - 1)]]
ELater ==
    [type |-> "searchResEntry", dn |-> Str("cn=later,o=org"),
     attributes |-> [cn |-> Str("later"), uid |-> Str("2003"),
                     accountExpires |-> PyInt(AdTimestampNow + 1)]]
Directory == <<ENever, EExpired, ELater>>

\* the conditions Connection.search reads out of a filter: every clause,
\* the clauses of a disjunction too, since the "|" is stripped
Conditions(search_filter) ==
    UNION {IF "or" \in DOMAIN c THEN c.or ELSE {c} : c \in search_filter.clauses}

\* one condition of Connection.search on one entry: the key is the text
\* before the "=", so "<=" gives a key ending in "<" (lesser), "!=" a key
\* ending in "!" (unequal), and ">=" a key no entry has as an attribute
ConditionHolds(entry, c) ==
    /\ c.op # ">="
    /\ c.attr \in DOMAIN entry.attributes
    /\ LET ldap_value == entry.attributes[c.attr] IN
       CASE c.op = "!=" -> ldap_value.t = "int" /\ ldap_value.n # c.value.n
         [] c.op = "<=" -> ldap_value.t = "int" /\ ldap_value.n < c.value.n
         [] OTHER -> ldap_value = c.value

\* Connection.search over Directory: the entries that meet all conditions
DirectorySearch(search_filter) ==
    SelectSeq(Directory,
              LAMBDA entry : \A c \in Conditions(search_filter) : ConditionHolds(entry, c))

(***************************************************************************)
(* Result Decoder.                                                         *)
(***************************************************************************)
\* _get_uid comparing uidtype with "DN" as written and keeping a list whole
_get_uidAsWritten(entry, uidtype_) ==
    IF uidtype_ = "DN"
    THEN [exc |-> "", val |-> Get(entry, "dn")]
    ELSE LET attributes == Get(entry, "attributes") IN
         IF attributes = None THEN [exc |-> "AttributeError", val |-> None]
         ELSE LET uid == Get(attributes, uidtype_) IN
              IF uidtype_ = "objectGUID"
              THEN UUIDFromBytesLe(uid)
              ELSE [exc |-> "", val |-> uid]

\* IdResolver._get_uid
_get_uid(entry, uidtype_) ==
    IF Lower(uidtype_) = "dn"
    THEN [exc |-> "", val |-> Get(entry, "dn")]
    ELSE LET attributes == Get(entry, "attributes") IN
         IF attributes = None THEN [exc |-> "AttributeError", val |-> None]
         ELSE LET a == Get(attributes, uidtype_) IN
              IF a.t = "list" /\ Len(a.e) = 0
              THEN [exc |-> "IndexError", val |-> None]
              ELSE LET uid == IF a.t = "list" THEN a.e[1] ELSE a IN
                   IF uidtype_ = "objectGUID"
                   THEN UUIDFromBytesLe(uid)
                   ELSE [exc |-> "", val |-> uid]

\* the mapped attribute with a list collapsed for the phone field too
MapValueCollapseAll(map_k, ldap_k, ldap_v) ==
    IF ldap_k = "objectGUID"
    THEN IF ldap_v.t = "list" /\ Len(ldap_v.e) > 0
         THEN UUIDFromBytesLe(ldap_v.e[1])
         ELSE [exc |-> IF ldap_v.t = "list" THEN "IndexError" ELSE "ValueError",
               val |-> None]
    ELSE IF ldap_v.t = "list"
         THEN IF Len(ldap_v.e) > 0
              THEN [exc |-> "", val |-> ldap_v.e[1]]
              ELSE [exc |-> "IndexError", val |-> None]
         ELSE [exc |-> "", val |-> ldap_v]

\* one mapped attribute of _ldap_attributes_to_user_object
MapValue(map_k, ldap_k, ldap_v) ==
    IF ldap_k = "objectGUID"
    THEN IF ldap_v.t = "list" /\ Len(ldap_v.e) > 0
         THEN UUIDFromBytesLe(ldap_v.e[1])
         ELSE [exc |-> IF ldap_v.t = "list" THEN "IndexError" ELSE "ValueError",
               val |-> None]
    ELSE IF ldap_v.t = "list" /\ map_k # "mobile"
         THEN IF Len(ldap_v.e) > 0
              THEN [exc |-> "", val |-> ldap_v.e[1]]
              ELSE [exc |-> "IndexError", val |-> None]
         ELSE [exc |-> "", val |-> ldap_v]

\* the conversion giving every field of the mapping, None when the
\* attribute is absent
_ldap_attributes_to_user_objectWithNulls(userinfo_, attributes) ==
    IF attributes = None THEN [exc |-> "AttributeError", val |-> None]
    ELSE LET keys == {map_k \in DOMAIN userinfo_ : userinfo_[map_k] \in DOMAIN attributes}
             conv(map_k) == MapValue(map_k, userinfo_[map_k], attributes[userinfo_[map_k]])
         IN
         IF \E map_k \in keys : conv(map_k).exc # ""
         THEN [exc |-> conv(CHOOSE map_k \in keys : conv(map_k).exc # "").exc,
               val |-> None]
         ELSE [exc |-> "",
               val |-> [map_k \in DOMAIN userinfo_ |->
                           IF map_k \in keys THEN conv(map_k).val ELSE None]]

\* IdResolver._ldap_attributes_to_user_object
_ldap_attributes_to_user_object(userinfo_, attributes) ==
    IF attributes = None THEN [exc |-> "AttributeError", val |-> None]
    ELSE LET keys == {map_k \in DOMAIN userinfo_ : userinfo_[map_k] \in DOMAIN attributes}
             conv(map_k) == MapValue(map_k, userinfo_[map_k], attributes[userinfo_[map_k]])
         IN
         IF \E map_k \in keys : conv(map_k).exc # ""
         THEN [exc |-> conv(CHOOSE map_k \in keys : conv(map_k).exc # "").exc,
               val |-> None]
         ELSE [exc |-> "", val |-> [map_k \in keys |-> conv(map_k).val]]

\* _trim_result keeping every result whatever noreferrals is
_trim_resultKeepAll(result_list) == result_list

\* IdResolver._trim_result
_trim_result(result_list) ==
    IF noreferrals
    THEN SelectSeq(result_list,
                   LAMBDA result : "type" \in DOMAIN result
                                   /\ result.type = "searchResEntry")
    ELSE result_list

(***************************************************************************)
(* Filter Compiler.                                                        *)
(***************************************************************************)
RECURSIVE Replace(_, _, _)
\* str.replace(ch, rep) for a one-character ch
Replace(s, ch, rep) ==
    IF s = <<>> THEN <<>>
    ELSE (IF Head(s) = ch THEN rep ELSE <<Head(s)>>) \o Replace(Tail(s), ch, rep)

\* the replacements in another order: the backslash last
_escape_loginnameBackslashLast(loginname) ==
    CStr(Replace(Replace(Replace(Replace(Replace(loginname.c,
            "*", <<"\\", "2", "a">>),
            "(", <<"\\", "2", "8">>),
            ")", <<"\\", "2", "9">>),
            "/", <<"\\", "2", "f">>),
            "\\", <<"\\", "5", "c">>))

\* the replacements without the one of the asterisk
_escape_loginnameKeepsAsterisk(loginname) ==
    CStr(Replace(Replace(Replace(Replace(loginname.c,
            "\\", <<"\\", "5", "c">>),
            "(", <<"\\", "2", "8">>),
            ")", <<"\\", "2", "9">>),
            "/", <<"\\", "2", "f">>))

\* IdResolver._escape_loginname
_escape_loginname(loginname) ==
    CStr(Replace(Replace(Replace(Replace(Replace(loginname.c,
            "\\", <<"\\", "5", "c">>),
            "*", <<"\\", "2", "a">>),
            "(", <<"\\", "2", "8">>),
            ")", <<"\\", "2", "9">>),
            "/", <<"\\", "2", "f">>))

\* "(&%s(%s=%s))": the base filter and one equality clause
LookupFilter(attr, value) ==
    [base |-> searchfilter, clauses |-> {[attr |-> attr, op |-> "=", value |-> value]}]

\* "(&" + searchfilter + ")"
BaseFilter == [base |-> searchfilter, clauses |-> {}]

\* privacyidea.lib.utils.to_utf8: the values of the model are byte strings
to_utf8(v) == v

(***************************************************************************)
(* Endpoint descriptors: split_uri works on the characters of the URI.     *)
(***************************************************************************)
\* most tokens a URI of the model is made of
MaxUriTokens == 5

UpperCase == <<"A", "B", "C", "D", "E", "F", "G", "H", "I", "J", "K", "L", "M",
               "N", "O", "P", "Q", "R", "S", "T", "U", "V", "W", "X", "Y", "Z">>
LowerCase == <<"a", "b", "c", "d", "e", "f", "g", "h", "i", "j", "k", "l", "m",
               "n", "o", "p", "q", "r", "s", "t", "u", "v", "w", "x", "y", "z">>
Digits == <<"0", "1", "2", "3", "4", "5", "6", "7", "8", "9">>

\* str.lower(), character by character
lower(s) ==
    [i \in 1..Len(s) |->
        IF \E k \in 1..26 : UpperCase[k] = s[i]
        THEN LowerCase[CHOOSE k \in 1..26 : UpperCase[k] = s[i]]
        ELSE s[i]]

RECURSIVE split(_, _)
\* str.split(sep) for a one-character sep
split(s, sep) ==
    IF \A i \in 1..Len(s) : s[i] # sep THEN <<s>>
    ELSE LET i == CHOOSE i \in 1..Len(s) : s[i] = sep /\ \A j \in 1..(i - 1) : s[j] # sep
         IN <<SubSeq(s, 1, i - 1)>> \o split(SubSeq(s, i + 1, Len(s)), sep)

RECURSIVE strip(_, _)
\* str.strip(ch): ch removed from both ends
strip(s, ch) ==
    IF s # <<>> /\ Head(s) = ch THEN strip(Tail(s), ch)
    ELSE IF s # <<>> /\ s[Len(s)] = ch THEN strip(SubSeq(s, 1, Len(s) - 1), ch)
    ELSE s

RECURSIVE DecimalValue(_)
DecimalValue(s) ==
    IF s = <<>> THEN 0
    ELSE 10 * DecimalValue(SubSeq(s, 1, Len(s) - 1))
         + (CHOOSE k \in 1..10 : Digits[k] = s[Len(s)]) - 1

\* int(text) for a text without sign or blanks: its digits must be decimal
int(s) ==
    IF s # <<>> /\ \A i \in 1..Len(s) : \E k \in 1..10 : Digits[k] = s[i]
    THEN [exc |-> "", val |-> PyInt(DecimalValue(s))]
    ELSE [exc |-> "ValueError", val |-> None]

\* split_uri taking the first element as the host when there are two
split_uriHostFirst(uri) ==
    LET ldap_elems == split(uri.c, ":") IN
    IF Len(ldap_elems) = 3
    THEN LET port == int(ldap_elems[3]) IN
         IF port.exc # "" THEN port
         ELSE [exc |-> "",
               val |-> <<CStr(strip(ldap_elems[2], "/")), port.val,
                         lower(ldap_elems[1]) = <<"l", "d", "a", "p", "s">> >>]
    ELSE IF Len(ldap_elems) = 2
    THEN [exc |-> "",
          val |-> <<CStr(strip(ldap_elems[1], "/")), None,
                    lower(ldap_elems[1]) = <<"l", "d", "a", "p", "s">> >>]
    ELSE [exc |-> "", val |-> <<uri, None, FALSE>>]

\* IdResolver.split_uri: (server, port, ssl)
split_uri(uri) ==
    LET ldap_elems == split(uri.c, ":") IN
    IF Len(ldap_elems) = 3
    THEN LET port == int(ldap_elems[3]) IN
         IF port.exc # "" THEN port
         ELSE [exc |-> "",
               val |-> <<CStr(strip(ldap_elems[2], "/")), port.val,
                         lower(ldap_elems[1]) = <<"l", "d", "a", "p", "s">> >>]
    ELSE IF Len(ldap_elems) = 2
    THEN [exc |-> "",
          val |-> <<CStr(strip(ldap_elems[2], "/")), None,
                    lower(ldap_elems[1]) = <<"l", "d", "a", "p", "s">> >>]
    ELSE [exc |-> "", val |-> <<uri, None, FALSE>>]

\* the texts URIs are put together from
UriTokens ==
    {<<"l", "d", "a", "p">>, <<"l", "d", "a", "p", "s">>, <<"L", "d", "a", "p", "S">>,
     <<":", "/", "/">>, <<":">>, <<"h">>, <<"1", "0">>}

RECURSIVE Concat(_)
Concat(ts) == IF ts = <<>> THEN <<>> ELSE Head(ts) \o Concat(Tail(ts))

\* the uri arguments of split_uri
Uris == {CStr(Concat(ts)) : ts \in SeqsUpTo(UriTokens, MaxUriTokens)}

(***************************************************************************)
(* A call in progress: the object's fields, the locals the claims speak    *)
(* of, and the library calls made so far.  A step of a call yields a set   *)
(* of outcomes, one per behaviour of the directory.                        *)
(***************************************************************************)
NoConn == [id |-> 0, user |-> None, st |-> "none"]

Ret(m, v) == [m |-> m, exc |-> "", val |-> v]
Raise(m, e) == [m |-> m, exc |-> e, val |-> None]
Log(m, call, id, data) ==
    [m EXCEPT !.ev = Append(@, [call |-> call, conn |-> id, data |-> data])]

\* log.debug / log.warning: the record holds the values put into the text
LogRecord(m, level, parts) ==
    [m EXCEPT !.logs = Append(@, [level |-> level, parts |-> parts])]

\* the rest of a call runs on every outcome that did not raise
Then(S, F(_)) == UNION {IF o.exc # "" THEN {o} ELSE F(o) : o \in S}

\* a connection variable: the field self.l, or the local l of the call
GetConn(m, ref) == IF ref = "self.l" THEN m.l ELSE m.ul
SetConn(m, ref, c) == IF ref = "self.l" THEN [m EXCEPT !.l = c] ELSE [m EXCEPT !.ul = c]

\* a new object is none of the objects the call can still reach
FreshId(m) ==
    LET used == {m.l.id, m.ul.id} IN
    CHOOSE i \in 1..3 : i \notin used /\ \A j \in 1..3 : j \notin used => i <= j

(***************************************************************************)
(* The ldap3 library: the directory decides every outcome.                 *)
(***************************************************************************)
\* ldap3.Connection(...): the constructor makes no network call
ldap3_Connection(m, user, password, authentication) ==
    LET id == FreshId(m) IN
    {Ret(Log(m, "Connection", id,
             [user |-> user, password |-> password, authentication |-> authentication]),
         [id |-> id, user |-> user, st |-> "created"])}

\* Connection.open(): a server of the pool answers, or none does
conn_open(m, ref) ==
    LET c == GetConn(m, ref) IN
    {Ret(Log(SetConn(m, ref, [c EXCEPT !.st = "open"]), "open", c.id, "ok"), None),
     Raise(Log(m, "open", c.id, "raise"), "LDAPSocketOpenError")}

\* Connection.bind(): accepted, rejected, or the exchange fails
conn_bind(m, ref) ==
    LET c == GetConn(m, ref) IN
    {Ret(Log(SetConn(m, ref, [c EXCEPT !.st = "bound"]), "bind", c.id, "true"), TRUE),
     Ret(Log(m, "bind", c.id, "false"), FALSE),
     Raise(Log(m, "bind", c.id, "raise"), "LDAPException")}

\* Connection.search(): any response, or the exchange fails
conn_search(m, ref, request) ==
    LET c == GetConn(m, ref) IN
    {Ret(Log(m, "search", c.id, [request |-> request, result |-> "ok", response |-> r]), r)
        : r \in Responses}
    \cup {Raise(Log(m, "search", c.id,
                    [request |-> request, result |-> "raise", response |-> <<>>]),
                "LDAPException")}

\* Connection.unbind(): the session is closed, or the exchange fails
conn_unbind(m, ref) ==
    LET c == GetConn(m, ref) IN
    {Ret(Log(SetConn(m, ref, [c EXCEPT !.st = "closed"]), "unbind", c.id, "ok"), TRUE),
     Raise(Log(m, "unbind", c.id, "raise"), "LDAPException")}

(***************************************************************************)
(* Connection Factory.                                                     *)
(***************************************************************************)
\* create_connection treating every unknown mode as Simple
create_connectionAnyMode(m, authtype_, user, password) ==
    LET authentication == IF ~Truthy(user) THEN "ANONYMOUS" ELSE "none"
        m1 == Log(m, "create_connection", 0, [user |-> user, authtype |-> authtype_])
    IN
    IF authtype_ = "NTLM"
    THEN ldap3_Connection(m1, user, to_utf8(password),
                          IF authentication = "none" THEN "NTLM" ELSE authentication)
    ELSE IF authtype_ = "SASL Digest-MD5"
    THEN ldap3_Connection(m1, user, password,
                          IF authentication = "none" THEN "SASL" ELSE authentication)
    ELSE ldap3_Connection(m1, user, to_utf8(password),
                          IF authentication = "none" THEN "SIMPLE" ELSE authentication)

\* IdResolver.create_connection
create_connection(m, authtype_, user, password) ==
    LET authentication == IF ~Truthy(user) THEN "ANONYMOUS" ELSE "none"
        m1 == Log(m, "create_connection", 0, [user |-> user, authtype |-> authtype_])
    IN
    IF authtype_ = "Simple"
    THEN ldap3_Connection(m1, user, to_utf8(password),
                          IF authentication = "none" THEN "SIMPLE" ELSE authentication)
    ELSE IF authtype_ = "NTLM"
    THEN ldap3_Connection(m1, user, to_utf8(password),
                          IF authentication = "none" THEN "NTLM" ELSE authentication)
    ELSE IF authtype_ = "SASL Digest-MD5"
    THEN ldap3_Connection(m1, user, password,
                          IF authentication = "none" THEN "SASL" ELSE authentication)
    ELSE {Raise(m1, "Authtype not supported")}

(***************************************************************************)
(* Identity Resolver (facade).                                             *)
(***************************************************************************)
\* self.userinfo.values(), with the identifier attribute appended
SearchAttributes(withUid) ==
    {userinfo[k] : k \in DOMAIN userinfo}
    \cup (IF withUid /\ Lower(uidtype) # "dn" THEN {uidtype} ELSE {})

\* _bind without its `if not self.i_am_bound`: every call connects again
_bindAlways(m) ==
    Then(create_connection(m, authtype, binddn, bindpw),
         LAMBDA c :
             Then(conn_open([c.m EXCEPT !.l = c.val], "self.l"),
                  LAMBDA o :
                      Then(conn_bind(o.m, "self.l"),
                           LAMBDA b :
                               IF ~b.val
                               THEN {Raise(b.m, "Wrong credentials")}
                               ELSE {Ret([b.m EXCEPT !.i_am_bound = TRUE], None)})))

\* _bind setting i_am_bound before it looks at the result of bind()
_bindMarksBoundFirst(m) ==
    IF m.i_am_bound THEN {Ret(m, None)}
    ELSE Then(create_connection(m, authtype, binddn, bindpw),
              LAMBDA c :
                  Then(conn_open([c.m EXCEPT !.l = c.val], "self.l"),
                       LAMBDA o :
                           Then(conn_bind([o.m EXCEPT !.i_am_bound = TRUE], "self.l"),
                                LAMBDA b :
                                    IF ~b.val
                                    THEN {Raise(b.m, "Wrong credentials")}
                                    ELSE {Ret(b.m, None)})))

\* IdResolver._bind
_bind(m) ==
    IF m.i_am_bound THEN {Ret(m, None)}
    ELSE Then(create_connection(m, authtype, binddn, bindpw),
              LAMBDA c :
                  Then(conn_open([c.m EXCEPT !.l = c.val], "self.l"),
                       LAMBDA o :
                           Then(conn_bind(o.m, "self.l"),
                                LAMBDA b :
                                    IF ~b.val
                                    THEN {Raise(b.m, "Wrong credentials")}
                                    ELSE {Ret([b.m EXCEPT !.i_am_bound = TRUE], None)})))

\* the identifier as _getDN puts it into the filter under uidtype_
FilterUidOf(uidtype_, userId) ==
    IF uidtype_ = "objectGUID"
    THEN LET u == UUIDFromText(userId) IN
         IF u.exc # "" THEN u ELSE [exc |-> "", val |-> escape_bytes(u.val)]
    ELSE [exc |-> "", val |-> userId]

\* the identifier as _getDN puts it into the filter
FilterUid(userId) == FilterUidOf(uidtype, userId)

\* IdResolver._getDN
_getDN(m, userId) ==
    IF Lower(uidtype) = "dn" THEN {Ret(m, userId)}
    ELSE LET f == FilterUid(userId) IN
         IF f.exc # "" THEN {Raise(m, f.exc)}
         ELSE Then(_bind(m),
                   LAMBDA b :
                       Then(conn_search(b.m, "self.l",
                                        [search_base |-> basedn, search_scope |-> scope,
                                         search_filter |-> LookupFilter(uidtype, f.val),
                                         attributes |-> SearchAttributes(FALSE)]),
                            LAMBDA s :
                                LET r == _trim_result(s.val) IN
                                IF Len(r) > 1
                                THEN {Raise(s.m, "Found more than one object")}
                                ELSE IF Len(r) = 1
                                THEN {Ret(s.m, Get(r[1], "dn"))}
                                ELSE {Ret(s.m, Str(""))}))

\* the search getUserInfo issues for userId
UserInfoRequest(userId) ==
    IF Lower(uidtype) = "dn"
    THEN [search_base |-> to_utf8(userId), search_scope |-> scope,
          search_filter |-> BaseFilter,
          attributes |-> SearchAttributes(FALSE)]
    ELSE [search_base |-> basedn, search_scope |-> scope, search_filter |-> LookupFilter(uidtype, userId),
          attributes |-> SearchAttributes(FALSE)]

\* getUserInfo without the uniqueness check: the last entry found wins
getUserInfoNoCheck(m, userId) ==
    Then(_bind(m),
         LAMBDA b :
             Then(conn_search(b.m, "self.l", UserInfoRequest(userId)),
                  LAMBDA s :
                      LET r == _trim_result(s.val) IN
                      IF Len(r) >= 1
                      THEN LET d == _ldap_attributes_to_user_object(
                                        userinfo, Get(r[Len(r)], "attributes")) IN
                           IF d.exc # "" THEN {Raise(s.m, d.exc)} ELSE {Ret(s.m, d.val)}
                      ELSE {Ret(s.m, <<>>)}))

\* IdResolver.getUserInfo
getUserInfo(m, userId) ==
    Then(_bind(m),
         LAMBDA b :
             Then(conn_search(b.m, "self.l", UserInfoRequest(userId)),
                  LAMBDA s :
                      LET r == _trim_result(s.val) IN
                      IF Len(r) > 1
                      THEN {Raise(s.m, "Found more than one object")}
                      ELSE IF Len(r) = 1
                      THEN LET d == _ldap_attributes_to_user_object(
                                        userinfo, Get(r[1], "attributes")) IN
                           IF d.exc # "" THEN {Raise(s.m, d.exc)} ELSE {Ret(s.m, d.val)}
                      ELSE {Ret(s.m, <<>>)}))

\* IdResolver.getUsername
getUsername(m, user_id) ==
    Then(getUserInfo(m, user_id),
         LAMBDA info :
             {Ret(info.m, IF "username" \in DOMAIN info.val
                          THEN info.val["username"] ELSE Str(""))})

\* IdResolver.getUserId
getUserId(m, LoginName) ==
    Then(_bind(m),
         LAMBDA b :
             Then(conn_search(b.m, "self.l",
                              [search_base |-> basedn, search_scope |-> scope,
                               search_filter |-> LookupFilter(loginname_attribute,
                                                              _escape_loginname(LoginName)),
                               attributes |-> SearchAttributes(TRUE)]),
                  LAMBDA s :
                      LET r == _trim_result(s.val) IN
                      IF Len(r) > 1
                      THEN {Raise(s.m, "Found more than one object")}
                      ELSE IF Len(r) = 1
                      THEN LET u == _get_uid(r[1], uidtype) IN
                           IF u.exc # "" THEN {Raise(s.m, u.exc)} ELSE {Ret(s.m, u.val)}
                      ELSE {Ret(s.m, Str(""))}))

\* "{0!s}".format(v) for the values of the model: the text of a string is
\* the string, the text of a small number is its decimal digit
FormatS(v) ==
    IF v.t = "int"
    THEN Str(<<"0", "1", "2", "3", "4", "5", "6", "7", "8", "9">>[v.n + 1])
    ELSE v

\* the filter with the comparator of accountExpires chosen the other way round
UserListFilterSwapped(searchDict) ==
    [base |-> searchfilter,
     clauses |->
         {IF search_key = "accountExpires"
          THEN LET comperator ==
                       IF searchDict[search_key] \in {Str("1"), PyInt(1)}
                       THEN ">=" ELSE "<="
               IN
               [or |-> {[attr |-> userinfo[search_key], op |-> comperator,
                         value |-> PyInt(AdTimestampNow)],
                        [attr |-> userinfo[search_key], op |-> "!=", value |-> PyInt(0)]}]
          ELSE [attr |-> userinfo[search_key], op |-> "=",
                value |-> FormatS(searchDict[search_key])]
            : search_key \in DOMAIN searchDict}]

\* the filter getUserList builds from searchDict
UserListFilter(searchDict) ==
    [base |-> searchfilter,
     clauses |->
         {IF search_key = "accountExpires"
          THEN LET comperator ==
                       IF searchDict[search_key] \in {Str("1"), PyInt(1)}
                       THEN "<=" ELSE ">="
               IN
               [or |-> {[attr |-> userinfo[search_key], op |-> comperator,
                         value |-> PyInt(AdTimestampNow)],
                        [attr |-> userinfo[search_key], op |-> "!=", value |-> PyInt(0)]}]
          ELSE [attr |-> userinfo[search_key], op |-> "=",
                value |-> FormatS(searchDict[search_key])]
            : search_key \in DOMAIN searchDict}]

\* the body of the try block making a record with no field of a referral
\* entry in place of failing on its missing attributes
DecodeEntryReferralAsRecord(entry) ==
    IF entry.type = "searchResRef"
    THEN [exc |-> "", val |-> [k \in {"userid"} |-> None]]
    ELSE LET user == _ldap_attributes_to_user_object(userinfo, Get(entry, "attributes")) IN
         IF user.exc # "" THEN user
         ELSE LET uid == _get_uid(entry, uidtype) IN
              IF uid.exc # "" THEN uid
              ELSE [exc |-> "",
                    val |-> [k \in DOMAIN user.val \cup {"userid"} |->
                                IF k = "userid" THEN uid.val ELSE user.val[k]]]

\* the body of the try block in getUserList's loop, for one entry
DecodeEntry(entry) ==
    LET user == _ldap_attributes_to_user_object(userinfo, Get(entry, "attributes")) IN
    IF user.exc # "" THEN user
    ELSE LET uid == _get_uid(entry, uidtype) IN
         IF uid.exc # "" THEN uid
         ELSE [exc |-> "",
               val |-> [k \in DOMAIN user.val \cup {"userid"} |->
                           IF k = "userid" THEN uid.val ELSE user.val[k]]]

RECURSIVE UserListLoopNoLimit(_, _, _)
\* the loop without the check of len(ret) against sizelimit
UserListLoopNoLimit(s, i, ret) ==
    IF i > Len(s)
    THEN [ret |-> ret, fetched |-> Len(s), exhausted |-> TRUE]
    ELSE LET d == DecodeEntry(s[i]) IN
         UserListLoopNoLimit(s, i + 1, IF d.exc = "" THEN Append(ret, d.val) ELSE ret)

RECURSIVE UserListLoopPrepend(_, _, _)
\* the loop putting each record in front of the list
UserListLoopPrepend(s, i, ret) ==
    IF i > Len(s)
    THEN [ret |-> ret, fetched |-> Len(s), exhausted |-> TRUE]
    ELSE IF Len(ret) >= sizelimit
    THEN [ret |-> ret, fetched |-> i, exhausted |-> FALSE]
    ELSE LET d == DecodeEntry(s[i]) IN
         UserListLoopPrepend(s, i + 1, IF d.exc = "" THEN <<d.val>> \o ret ELSE ret)

RECURSIVE UserListLoopAbortOnError(_, _, _)
\* the loop ending the enumeration at the first entry that fails to decode
UserListLoopAbortOnError(s, i, ret) ==
    IF i > Len(s)
    THEN [ret |-> ret, fetched |-> Len(s), exhausted |-> TRUE]
    ELSE IF Len(ret) >= sizelimit
    THEN [ret |-> ret, fetched |-> i, exhausted |-> FALSE]
    ELSE LET d == DecodeEntry(s[i]) IN
         IF d.exc # ""
         THEN [ret |-> ret, fetched |-> i, exhausted |-> FALSE]
         ELSE UserListLoopAbortOnError(s, i + 1, Append(ret, d.val))

RECURSIVE UserListLoop(_, _, _)
\* the loop of getUserList over the stream s, about to fetch entry i
UserListLoop(s, i, ret) ==
    IF i > Len(s)
    THEN [ret |-> ret, fetched |-> Len(s), exhausted |-> TRUE]
    ELSE IF Len(ret) >= sizelimit
    THEN [ret |-> ret, fetched |-> i, exhausted |-> FALSE]
    ELSE LET d == DecodeEntry(s[i]) IN
         UserListLoop(s, i + 1, IF d.exc = "" THEN Append(ret, d.val) ELSE ret)

\* extend.standard.paged_search(generator=True): a lazy stream that yields
\* the entries of s and then ends, or fails.  The stream is any stream, or
\* the one a directory holding Directory answers the filter with
paged_search(m, ref, request) ==
    LET c == GetConn(m, ref) IN
    {[m |-> Log(m, "paged_search", c.id,
                [request |-> request, result |-> IF fails THEN "raise" ELSE "ok",
                 response |-> s]),
      s |-> s, fails |-> fails]
        : s \in Streams \cup {DirectorySearch(request.search_filter)}, fails \in BOOLEAN}

\* getUserList returning what it has when the stream fails
getUserListKeepsPartial(m, searchDict) ==
    Then(_bind(m),
         LAMBDA b :
             IF \E k \in DOMAIN searchDict : k \notin DOMAIN userinfo
             THEN {Raise(b.m, "KeyError")}
             ELSE UNION {LET loop == UserListLoop(g.s, 1, <<>>) IN
                         {Ret([g.m EXCEPT !.fetched = loop.fetched], loop.ret)}
                         : g \in paged_search(b.m, "self.l",
                                              [search_base |-> basedn, search_scope |-> scope,
                                               search_filter |-> UserListFilter(searchDict),
                                               attributes |-> SearchAttributes(TRUE)])})

\* IdResolver.getUserList
getUserList(m, searchDict) ==
    Then(_bind(m),
         LAMBDA b :
             IF \E k \in DOMAIN searchDict : k \notin DOMAIN userinfo
             THEN {Raise(b.m, "KeyError")}
             ELSE UNION {LET loop == UserListLoop(g.s, 1, <<>>)
                             m1 == [g.m EXCEPT !.fetched = loop.fetched]
                         IN
                         IF loop.exhausted /\ g.fails
                         THEN {Raise(m1, "LDAPException")}
                         ELSE {Ret(m1, loop.ret)}
                         : g \in paged_search(b.m, "self.l",
                                              [search_base |-> basedn, search_scope |-> scope,
                                               search_filter |-> UserListFilter(searchDict),
                                               attributes |-> SearchAttributes(TRUE)])})

\* the try block without the test for an empty bind_user
CheckPassTryNoGuard(m, bind_user, password) ==
    Then(create_connection(m, authtype, bind_user, password),
         LAMBDA c :
             Then(conn_open([c.m EXCEPT !.ul = c.val], "l"),
                  LAMBDA o :
                      Then(conn_bind(o.m, "l"),
                           LAMBDA r :
                               IF ~r.val
                               THEN {Raise(r.m, "Wrong credentials")}
                               ELSE Then(conn_unbind(r.m, "l"),
                                         LAMBDA u : {Ret(u.m, TRUE)}))))

\* the try block keeping the end user's connection in self.l
CheckPassTryOnSelfL(m, bind_user, password) ==
    IF ~Truthy(bind_user)
    THEN {Raise(m, "No valid user. Empty bind_user.")}
    ELSE Then(create_connection(m, authtype, bind_user, password),
              LAMBDA c :
                  Then(conn_open([c.m EXCEPT !.l = c.val], "self.l"),
                       LAMBDA o :
                           Then(conn_bind(o.m, "self.l"),
                                LAMBDA r :
                                    IF ~r.val
                                    THEN {Raise(r.m, "Wrong credentials")}
                                    ELSE Then(conn_unbind(r.m, "self.l"),
                                              LAMBDA u : {Ret(u.m, TRUE)}))))

\* the try block of checkPass, with the records it logs
CheckPassTry(m, bind_user, password) ==
    LET m1 == LogRecord(LogRecord(m, "debug", <<Str("Authtype"), Str(authtype)>>),
                        "debug", <<Str("user"), bind_user>>)
    IN
    IF ~Truthy(bind_user)
    THEN {Raise(m1, "No valid user. Empty bind_user.")}
    ELSE Then(create_connection(m1, authtype, bind_user, password),
              LAMBDA c :
                  Then(conn_open([c.m EXCEPT !.ul = c.val], "l"),
                       LAMBDA o :
                           Then(conn_bind(o.m, "l"),
                                LAMBDA r :
                                    LET m2 == LogRecord(r.m, "debug",
                                                        <<Str("bind result"),
                                                          [t |-> "bool", b |-> r.val]>>)
                                    IN
                                    IF ~r.val
                                    THEN {Raise(m2, "Wrong credentials")}
                                    ELSE Then(conn_unbind(
                                                  LogRecord(m2, "debug",
                                                            <<Str("bind seems successful.")>>),
                                                  "l"),
                                              LAMBDA u :
                                                  {Ret(LogRecord(u.m, "debug",
                                                                 <<Str("unbind successful.")>>),
                                                       TRUE)}))))

\* `except Exception as e` of checkPass: the warning names uid, bind_user
\* and e, and the call returns False
ExceptLogReturnFalse(S, uid, bind_user) ==
    {IF o.exc # ""
     THEN Ret(LogRecord(o.m, "warning",
                        <<Str("failed to check password for"), uid, bind_user,
                          Str(o.exc)>>),
              FALSE)
     ELSE o : o \in S}

\* the bind identity checkPass derives from uid
BindUser(m, uid) ==
    IF authtype = "NTLM"
    THEN Then(getUserInfo(m, uid),
              LAMBDA uinfo :
                  {Ret(uinfo.m, [t |-> "ntlm", domain_name |-> binddn,
                                 account |-> Get(uinfo.val, "username")])})
    ELSE _getDN(m, uid)

\* IdResolver.checkPass
checkPass(m, uid, password) ==
    Then(BindUser(m, uid),
         LAMBDA u :
             ExceptLogReturnFalse(CheckPassTry([u.m EXCEPT !.bind_user = u.val],
                                               u.val, to_utf8(password)),
                                  uid, u.val))

(***************************************************************************)
(* Server pool and connection test (class methods).                        *)
(***************************************************************************)
\* float(v) for the values of the model: a number, or a text of digits
float(v) ==
    CASE v.t = "int" -> [exc |-> "", val |-> v]
      [] v.t = "cstr" -> int(v.c)
      [] OTHER -> [exc |-> "TypeError", val |-> None]

\* get_serverpool passing each URI to split_uri as it stands in the list
get_serverpoolNoStrip(urilist, timeout) ==
    IF urilist = None THEN [exc |-> "AttributeError", val |-> None]
    ELSE LET uris == split(urilist.c, ",")
             parsed == [i \in 1..Len(uris) |-> split_uri(CStr(uris[i]))]
             connect_timeout == float(timeout)
         IN
         IF parsed[1].exc # "" THEN [exc |-> parsed[1].exc, val |-> None]
         ELSE IF connect_timeout.exc # "" THEN connect_timeout
         ELSE IF \E i \in 1..Len(uris) : parsed[i].exc # ""
         THEN [exc |-> parsed[CHOOSE i \in 1..Len(uris) : parsed[i].exc # ""].exc,
               val |-> None]
         ELSE [exc |-> "",
               val |-> [strategy |-> "ROUND_ROBIN", active |-> TRUE, exhaust |-> TRUE,
                        servers |-> [i \in 1..Len(uris) |->
                                        [host |-> parsed[i].val[1],
                                         port |-> parsed[i].val[2],
                                         use_ssl |-> parsed[i].val[3],
                                         connect_timeout |-> connect_timeout.val]]]]

\* IdResolver.get_serverpool: one server per URI of the comma separated
\* list; the first step that raises (split_uri, then float) ends the loop
get_serverpool(urilist, timeout) ==
    IF urilist = None THEN [exc |-> "AttributeError", val |-> None]
    ELSE LET uris == split(urilist.c, ",")
             parsed == [i \in 1..Len(uris) |-> split_uri(CStr(strip(uris[i], " ")))]
             connect_timeout == float(timeout)
         IN
         IF parsed[1].exc # "" THEN [exc |-> parsed[1].exc, val |-> None]
         ELSE IF connect_timeout.exc # "" THEN connect_timeout
         ELSE IF \E i \in 1..Len(uris) : parsed[i].exc # ""
         THEN [exc |-> parsed[CHOOSE i \in 1..Len(uris) : parsed[i].exc # ""].exc,
               val |-> None]
         ELSE [exc |-> "",
               val |-> [strategy |-> "ROUND_ROBIN", active |-> TRUE, exhaust |-> TRUE,
                        servers |-> [i \in 1..Len(uris) |->
                                        [host |-> parsed[i].val[1],
                                         port |-> parsed[i].val[2],
                                         use_ssl |-> parsed[i].val[3],
                                         connect_timeout |-> connect_timeout.val]]]]

\* a USERINFO text: yaml.load gives its mapping, or fails on a text that is
\* no YAML
YamlText(mapping) == [t |-> "yaml", wellformed |-> TRUE, mapping |-> mapping]
YamlBroken == [t |-> "yaml", wellformed |-> FALSE, mapping |-> <<>>]
yaml_load(text) ==
    IF text.wellformed THEN [exc |-> "", val |-> text.mapping]
    ELSE [exc |-> "YAMLError", val |-> None]

\* a step without library call: it returns or raises
Pure(m, r) == IF r.exc # "" THEN {Raise(m, r.exc)} ELSE {Ret(m, r.val)}

\* the loop of testconnection over the stream s
TestLoop(s, uidtype_) ==
    LET userid == [i \in 1..Len(s) |-> _get_uid(s[i], uidtype_)] IN
    IF \E i \in 1..Len(s) : userid[i].exc # ""
    THEN [exc |-> userid[CHOOSE i \in 1..Len(s) : userid[i].exc # ""].exc, val |-> None]
    ELSE [exc |-> "",
          val |-> [t |-> "found", count |-> Len(s),
                   uidtype_count |-> Cardinality({i \in 1..Len(s) : Truthy(userid[i].val)})]]

\* the try block of testconnection
TestConnectionTry(m, param) ==
    Then(Pure(m, float(IF "TIMEOUT" \in DOMAIN param THEN param.TIMEOUT ELSE PyInt(5))),
     LAMBDA t :
    Then(Pure(t.m, get_serverpool(Get(param, "LDAPURI"), t.val)),
     LAMBDA server_pool :
    Then(create_connection(server_pool.m,
                           IF "AUTHTYPE" \in DOMAIN param THEN param.AUTHTYPE ELSE "Simple",
                           Get(param, "BINDDN"), to_utf8(Get(param, "BINDPW"))),
     LAMBDA c :
    Then(conn_open([c.m EXCEPT !.ul = c.val], "l"),
     LAMBDA o :
    Then(conn_bind(o.m, "l"),
     LAMBDA b :
        IF ~b.val THEN {Raise(b.m, "Wrong credentials")}
        ELSE IF "USERINFO" \notin DOMAIN param THEN {Raise(b.m, "KeyError")}
        ELSE
    Then(Pure(b.m, yaml_load(param.USERINFO)),
     LAMBDA y :
        IF "UIDTYPE" \notin DOMAIN param THEN {Raise(y.m, "AttributeError")}
        ELSE IF "LDAPBASE" \notin DOMAIN param \/ "LDAPSEARCHFILTER" \notin DOMAIN param
        THEN {Raise(y.m, "KeyError")}
        ELSE UNION {
            LET loop == TestLoop(g.s, param.UIDTYPE) IN
            IF loop.exc # "" THEN {Raise(g.m, loop.exc)}
            ELSE IF g.fails THEN {Raise(g.m, "LDAPException")}
            ELSE Then(conn_unbind(g.m, "l"), LAMBDA u : {Ret(u.m, loop.val)})
            : g \in paged_search(y.m, "l",
                                 [search_base |-> param.LDAPBASE,
                                  search_scope |-> IF Truthy(Get(param, "SCOPE"))
                                                   THEN param.SCOPE ELSE Str("SUBTREE"),
                                  search_filter |-> [base |-> param.LDAPSEARCHFILTER,
                                                     clauses |-> {}],
                                  attributes |->
                                      {y.val[k] : k \in DOMAIN y.val}
                                      \cup (IF Lower(param.UIDTYPE) # "dn"
                                            THEN {param.UIDTYPE} ELSE {})])}))))))

\* testconnection without its except clause
testconnectionNoCatch(m, param) ==
    {IF o.exc # "" THEN o ELSE Ret(o.m, <<TRUE, o.val>>) : o \in TestConnectionTry(m, param)}

\* IdResolver.testconnection: (success, desc)
testconnection(m, param) ==
    {IF o.exc # "" THEN Ret(o.m, <<FALSE, [t |-> "repr", e |-> o.exc]>>)
     ELSE Ret(o.m, <<TRUE, o.val>>) : o \in TestConnectionTry(m, param)}

(***************************************************************************)
(* The state machine.                                                      *)
(***************************************************************************)
Uids == {Str(""), Str("cn=alice,o=org"), UUIDFromBytesLe(Bytes(GuidAlice)).val}
Passwords == {Str("secret"), Str("wrong")}
LoginNames == {CStr(<<"b", "o", "b">>), CStr(<<"a", "*">>)}
SearchDicts ==
    {<<>>, [username |-> Str("alice")],
     [accountExpires |-> Str("0")], [accountExpires |-> Str("1")]}

NoRes ==
    [op |-> "none", args |-> <<>>, exc |-> "", val |-> None, ev |-> <<>>,
     ul |-> NoConn, bind_user |-> None, fetched |-> 0, logs |-> <<>>]

\* a call starts on the object's fields with fresh locals and an empty log
Call ==
    [i_am_bound |-> i_am_bound, l |-> l, ul |-> NoConn, ev |-> <<>>,
     bind_user |-> None, fetched |-> 0, logs |-> <<>>]

\* a call ending with i_am_bound kept on the class: every object sees it
DoneFlagOnClass(op, args, o) ==
    /\ i_am_bound' = o.m.i_am_bound
    /\ l' = o.m.l
    /\ res' = [op |-> op, args |-> args, exc |-> o.exc, val |-> o.val, ev |-> o.m.ev,
               ul |-> o.m.ul, bind_user |-> o.m.bind_user, fetched |-> o.m.fetched,
               logs |-> o.m.logs]
    /\ other' = [other EXCEPT !.i_am_bound = o.m.i_am_bound]
    /\ UNCHANGED <<authtype, uidtype, noreferrals, sizelimit>>

\* a call ends: the fields keep what the call assigned, the caller gets o
Done(op, args, o) ==
    /\ i_am_bound' = o.m.i_am_bound
    /\ l' = o.m.l
    /\ res' = [op |-> op, args |-> args, exc |-> o.exc, val |-> o.val, ev |-> o.m.ev,
               ul |-> o.m.ul, bind_user |-> o.m.bind_user, fetched |-> o.m.fetched,
               logs |-> o.m.logs]
    /\ UNCHANGED <<authtype, uidtype, noreferrals, sizelimit, other>>

\* a second object: constructed, and loaded with a configuration
SecondObject ==
    [i_am_bound |-> FALSE, l |-> NoConn, authtype |-> "Simple", uidtype |-> "DN",
     noreferrals |-> FALSE, sizelimit |-> MaxSizeLimit]

Init ==
    /\ i_am_bound = FALSE
    /\ l = NoConn
    /\ authtype \in AuthTypes
    /\ uidtype \in UidTypes
    /\ noreferrals \in BOOLEAN
    /\ sizelimit \in 0..MaxSizeLimit
    /\ res = NoRes
    /\ other = SecondObject

\* loadConfig starting the object afresh: the bound flag is dropped
loadConfigFromUnbinds(authtypes, uidtypes, noreferralss, sizelimits) ==
    /\ res.op = "none"
    /\ authtype' \in authtypes
    /\ uidtype' \in uidtypes
    /\ noreferrals' \in noreferralss
    /\ sizelimit' \in sizelimits
    /\ i_am_bound' = FALSE
    /\ UNCHANGED <<l, res, other>>

\* IdResolver.loadConfig with a configuration whose AUTHTYPE, UIDTYPE,
\* NOREFERRALS and SIZELIMIT are taken from the given sets
loadConfigFrom(authtypes, uidtypes, noreferralss, sizelimits) ==
    /\ res.op = "none"
    /\ authtype' \in authtypes
    /\ uidtype' \in uidtypes
    /\ noreferrals' \in noreferralss
    /\ sizelimit' \in sizelimits
    /\ UNCHANGED <<i_am_bound, l, res, other>>

\* IdResolver.loadConfig
loadConfig == loadConfigFrom(AuthTypes, UidTypes, BOOLEAN, 0..MaxSizeLimit)

CheckPass ==
    /\ res.op = "none"
    /\ \E uid \in Uids, password \in Passwords :
           \E o \in checkPass(Call, uid, password) :
               Done("checkPass", <<uid, password>>, o)

GetUserInfo ==
    /\ res.op = "none"
    /\ \E userId \in Uids : \E o \in getUserInfo(Call, userId) :
           Done("getUserInfo", <<userId>>, o)

GetUsername ==
    /\ res.op = "none"
    /\ \E user_id \in Uids : \E o \in getUsername(Call, user_id) :
           Done("getUsername", <<user_id>>, o)

GetUserId ==
    /\ res.op = "none"
    /\ \E LoginName \in LoginNames : \E o \in getUserId(Call, LoginName) :
           Done("getUserId", <<LoginName>>, o)

GetUserList ==
    /\ res.op = "none"
    /\ \E searchDict \in SearchDicts : \E o \in getUserList(Call, searchDict) :
           Done("getUserList", <<searchDict>>, o)

\* the caller takes the outcome of the call
Return ==
    /\ res.op # "none"
    /\ res' = NoRes
    /\ UNCHANGED <<i_am_bound, l, authtype, uidtype, noreferrals, sizelimit, other>>

Next ==
    \/ loadConfig
    \/ CheckPass
    \/ GetUserInfo
    \/ GetUsername
    \/ GetUserId
    \/ GetUserList
    \/ Return

Spec == Init /\ [][Next]_vars

(***************************************************************************)
(* The static methods, each under a specification of its own: the fields   *)
(* are those of an object as __init__ or a loadConfig leaves it, and the   *)
(* method is applied to every argument of the model.                       *)
(***************************************************************************)
InitStatic ==
    /\ i_am_bound = FALSE
    /\ l = NoConn
    /\ authtype = "Simple"
    /\ uidtype = "DN"
    /\ noreferrals \in BOOLEAN
    /\ sizelimit = MaxSizeLimit
    /\ res = NoRes
    /\ other = SecondObject

\* a static method was applied to args; it returned or raised o
Applied(op, args, o) ==
    /\ res' = [NoRes EXCEPT !.op = op, !.args = args, !.exc = o.exc, !.val = o.val]
    /\ UNCHANGED <<i_am_bound, l, authtype, uidtype, noreferrals, sizelimit, other>>

SplitUri ==
    /\ res.op = "none"
    /\ \E uri \in Uris : Applied("split_uri", <<uri>>, split_uri(uri))

\* the URIs of an LDAPURI list as an administrator types them, blanks
\* around the commas included
MaxUris == 3

UriListParts ==
    {<<"l", "d", "a", "p", ":", "/", "/", "h">>,
     <<" ", "L", "d", "a", "p", "S", ":", "/", "/", "h", ":", "1", "0", " ">>,
     <<" ", "h">>,
     <<"l", "d", "a", "p", ":", "/", "/", "h", ":", "h">>,
     <<>>}

RECURSIVE JoinWithCommas(_)
JoinWithCommas(parts) ==
    IF Len(parts) = 1 THEN parts[1]
    ELSE parts[1] \o <<",">> \o JoinWithCommas(Tail(parts))

UriLists ==
    {CStr(JoinWithCommas(parts)) : parts \in SeqsUpTo(UriListParts, MaxUris) \ {<<>>}}

\* the timeout as loadConfig and testconnection pass it on
Timeouts == {PyInt(5), PyInt(30)}

GetServerpool ==
    /\ res.op = "none"
    /\ \E urilist \in UriLists, timeout \in Timeouts :
           Applied("get_serverpool", <<urilist, timeout>>,
                   get_serverpool(urilist, timeout))

NextUri == SplitUri \/ GetServerpool \/ Return

SpecUri == InitStatic /\ [][NextUri]_vars

\* the result_list arguments of _trim_result
ResultLists == Streams

\* USERINFO mappings: canonical field -> directory attribute
UserInfos ==
    {userinfo,
     [mobile |-> "telephoneNumber"],
     [username |-> "cn"],
     [phone |-> "telephoneNumber", username |-> "cn"],
     [username |-> "cn", givenname |-> "cn", mobile |-> "telephoneNumber"],
     [guid |-> "objectGUID", username |-> "cn"],
     [mobile |-> "objectGUID"]}

\* the attributes of an entry as a search returns them
AttributeDicts ==
    {EAlice.attributes, EBob.attributes, ENever.attributes,
     [telephoneNumber |-> Str("+1")],
     [telephoneNumber |-> List(<<Str("+1"), Str("+2")>>), sn |-> Str("a")],
     [cn |-> List(<<Str("alice"), Str("alice2")>>)],
     [sn |-> List(<<Str("a")>>)]}

TrimResult ==
    /\ res.op = "none"
    /\ \E result_list \in ResultLists :
           Applied("_trim_result", <<result_list>>,
                   [exc |-> "", val |-> _trim_result(result_list)])

AttributesToUserObject ==
    /\ res.op = "none"
    /\ \E userinfo_ \in UserInfos, attributes \in AttributeDicts :
           Applied("_ldap_attributes_to_user_object", <<userinfo_, attributes>>,
                   _ldap_attributes_to_user_object(userinfo_, attributes))

\* the 16-byte values of the model: GuidAlice and arithmetic progressions
MaxGuidStep == 3

GuidBases == {0, 7, 100, 255}

Guids ==
    {GuidAlice}
    \cup {[i \in 1..16 |-> (a * i + b) % 256] : a \in 0..MaxGuidStep, b \in GuidBases}

\* an entry whose objectGUID is the single value b, not wrapped in a list
GuidEntry(b) ==
    [type |-> "searchResEntry", dn |-> Str("cn=guid,o=org"),
     attributes |-> [cn |-> List(<<Str("guid")>>), objectGUID |-> Bytes(b)]]

\* the entries and the uidtype spellings _get_uid is applied to
UidEntries == Entries \cup {ENever} \cup {GuidEntry(b) : b \in Guids}

UidTypeNames == {"DN", "dn", "Dn", "dN", "uid", "cn", "sn", "objectGUID"}

GetUid ==
    /\ res.op = "none"
    /\ \E entry \in UidEntries, uidtype_ \in UidTypeNames :
           Applied("_get_uid", <<entry, uidtype_>>, _get_uid(entry, uidtype_))

\* _get_uid decodes the objectGUID b of an entry, and _getDN turns the text
\* into the bytes and the escaped clause value of its lookup filter
GuidRoundTrip ==
    /\ res.op = "none"
    /\ \E b \in Guids :
           LET text == _get_uid(GuidEntry(b), "objectGUID")
               back == UUIDFromText(text.val)
               clause == FilterUidOf("objectGUID", text.val)
           IN Applied("guid_round_trip", <<Bytes(b)>>,
                      IF text.exc # "" THEN text
                      ELSE IF back.exc # "" THEN back
                      ELSE IF clause.exc # "" THEN clause
                      ELSE [exc |-> "",
                            val |-> [text |-> text.val, bytes_le |-> back.val,
                                     clause |-> clause.val]])

NextDecoder ==
    TrimResult \/ AttributesToUserObject \/ GetUid \/ GuidRoundTrip \/ Return

SpecDecoder == InitStatic /\ [][NextDecoder]_vars

\* longest login name made of NameChars
MaxNameLen == 2

\* the characters _escape_loginname replaces, and two it leaves alone
NameChars == {"\\", "*", "(", ")", "/", "2", "a"}

\* the loginname arguments of _escape_loginname
Names ==
    {CStr(c) : c \in SeqsUpTo(NameChars, MaxNameLen)}
    \cup {CStr(<<"a", "*", "b", "(", "c", ")", "d", "/", "e", "\\", "f">>),
          CStr(<<"\\", "2", "a">>), CStr(<<"\\", "5", "c">>)}

\* _escape_loginname applied to two login names
EscapeLoginname ==
    /\ res.op = "none"
    /\ \E loginname \in Names, loginname2 \in Names :
           Applied("_escape_loginname", <<loginname, loginname2>>,
                   [exc |-> "",
                    val |-> <<_escape_loginname(loginname),
                              _escape_loginname(loginname2)>>])

NextEscape == EscapeLoginname \/ Return

SpecEscape == InitStatic /\ [][NextEscape]_vars

(***************************************************************************)
(* The filter of getUserList as a function of searchDict: every criteria   *)
(* map over the canonical fields of the attribute mapping, with the values *)
(* a caller passes for them.                                               *)
(***************************************************************************)
CriterionValues == {Str("alice"), Str("0"), Str("1"), PyInt(0), PyInt(1)}

Criteria ==
    UNION {[keys -> CriterionValues] : keys \in SUBSET (DOMAIN userinfo)}

BuildUserListFilter ==
    /\ res.op = "none"
    /\ \E searchDict \in Criteria :
           Applied("UserListFilter", <<searchDict>>,
                   [exc |-> "", val |-> UserListFilter(searchDict)])

NextFilter == BuildUserListFilter \/ Return

SpecFilter == InitStatic /\ [][NextFilter]_vars

(***************************************************************************)
(* getUserInfo in DN mode against a directory tree: the users alice and    *)
(* bob lie beneath o=org, nothing lies beneath a user.                     *)
(***************************************************************************)
Tree == <<EAlice, EBob>>

\* the DNs a caller asks for: a user, the node above the users, no entry
Dns == {Str("cn=alice,o=org"), Str("cn=bob,o=org"), Str("o=org"), Str("cn=carol,o=org")}

\* dn.endswith(search_base) for the DNs of the model
DnEndsWith(dn, search_base) ==
    \/ dn = search_base
    \/ search_base = Str("")
    \/ /\ search_base = Str("o=org")
       /\ dn \in {Str("cn=alice,o=org"), Str("cn=bob,o=org"), Str("cn=carol,o=org")}

\* the entries the directory answers a search with: those at or beneath
\* the search base that meet the conditions of the filter
TreeSearch(request) ==
    SelectSeq(Tree,
              LAMBDA entry :
                  /\ DnEndsWith(entry.dn, request.search_base)
                  /\ \A c \in Conditions(request.search_filter) : ConditionHolds(entry, c))

GetUserInfoOfDn ==
    /\ res.op = "none"
    /\ Lower(uidtype) = "dn"
    /\ \E userId \in Dns : \E o \in getUserInfo(Call, userId) :
           Done("getUserInfo", <<userId>>, o)

NextDn == GetUserInfoOfDn \/ Return

SpecDn == InitStatic /\ [][NextDn]_vars

\* a complete set of parameters for testconnection
GoodParam ==
    [LDAPURI |-> CStr(<<"l", "d", "a", "p", ":", "/", "/", "h", ",", " ",
                        "L", "d", "a", "p", "S", ":", "/", "/", "h", ":", "1", "0">>),
     TIMEOUT |-> CStr(<<"5">>),
     AUTHTYPE |-> "Simple",
     BINDDN |-> binddn,
     BINDPW |-> bindpw,
     USERINFO |-> YamlText(userinfo),
     UIDTYPE |-> "uid",
     LDAPBASE |-> basedn,
     LDAPSEARCHFILTER |-> searchfilter]

Without(param, key) == [k \in DOMAIN param \ {key} |-> param[k]]

\* the param arguments of testconnection: complete, one parameter
\* missing, one parameter of no use
TestParams ==
    {GoodParam}
    \cup {Without(GoodParam, key) : key \in DOMAIN GoodParam}
    \cup {[GoodParam EXCEPT !.LDAPURI = CStr(<<"l", "d", "a", "p", ":", "/", "/", "h", ":", "h">>)],
          [GoodParam EXCEPT !.TIMEOUT = CStr(<<"s">>)],
          [GoodParam EXCEPT !.AUTHTYPE = "Kerberos"],
          [GoodParam EXCEPT !.USERINFO = YamlBroken],
          [GoodParam EXCEPT !.UIDTYPE = "DN"],
          [GoodParam EXCEPT !.UIDTYPE = "objectGUID"]}

TestConnection ==
    /\ res.op = "none"
    /\ \E param \in TestParams : \E o \in testconnection(Call, param) :
           Done("testconnection", <<param>>, o)

NextTest == TestConnection \/ Return

SpecTest == InitStatic /\ [][NextTest]_vars

(***************************************************************************)
(* loadConfig on all the fields of an object.                              *)
(***************************************************************************)
DefaultTimeout == 5
DefaultSizeLimit == 500

\* config.get(key, default)
GetOr(d, k, default) == IF k \in DOMAIN d THEN d[k] ELSE default

\* int(v): a number, or a text of decimal digits
IntOf(v) ==
    CASE v.t = "int" -> [exc |-> "", val |-> v]
      [] v.t = "cstr" -> int(v.c)
      [] OTHER -> [exc |-> "TypeError", val |-> None]

\* IdResolver.loadConfig: the assignments in their order; a conversion that
\* raises leaves the fields below it as they were. val is the object's
\* fields when the call ends
loadConfigFields(self, config) ==
    LET s1 == [self EXCEPT !.uri = Get(config, "LDAPURI"),
                           !.basedn = Get(config, "LDAPBASE"),
                           !.binddn = Get(config, "BINDDN"),
                           !.bindpw = Get(config, "BINDPW")]
        timeout == float(GetOr(config, "TIMEOUT", PyInt(DefaultTimeout)))
        s2 == [s1 EXCEPT !.timeout = timeout.val]
        sizelimit_ == IntOf(GetOr(config, "SIZELIMIT", PyInt(DefaultSizeLimit)))
        s3 == [s2 EXCEPT !.sizelimit = sizelimit_.val,
                         !.loginname_attribute = Get(config, "LOGINNAMEATTRIBUTE"),
                         !.searchfilter = Get(config, "LDAPSEARCHFILTER"),
                         !.reversefilter = Get(config, "LDAPFILTER")]
        userinfo_ == yaml_load(GetOr(config, "USERINFO", YamlText(<<>>)))
        s4 == [s3 EXCEPT !.userinfo = userinfo_.val,
                         !.uidtype = GetOr(config, "UIDTYPE", "DN"),
                         !.noreferrals = GetOr(config, "NOREFERRALS", FALSE),
                         !.certificate = Get(config, "CACERTIFICATE"),
                         !.scope = IF Truthy(Get(config, "SCOPE"))
                                   THEN config.SCOPE ELSE Str("SUBTREE"),
                         !.resolverId = s1.uri,
                         !.authtype = GetOr(config, "AUTHTYPE", "Simple")]
    IN
    IF timeout.exc # "" THEN [exc |-> timeout.exc, val |-> s1]
    ELSE IF sizelimit_.exc # "" THEN [exc |-> sizelimit_.exc, val |-> s2]
    ELSE IF userinfo_.exc # "" THEN [exc |-> userinfo_.exc, val |-> s3]
    ELSE [exc |-> "", val |-> s4]

\* two configurations that differ in every parameter
ConfigA ==
    [LDAPURI |-> Str("ldap://a"), LDAPBASE |-> Str("o=a"),
     BINDDN |-> Str("cn=admin,o=a"), BINDPW |-> Str("pwa"),
     TIMEOUT |-> CStr(<<"3">>), SIZELIMIT |-> CStr(<<"1">>),
     LOGINNAMEATTRIBUTE |-> Str("cn"), LDAPSEARCHFILTER |-> Str("(cn=*)"),
     LDAPFILTER |-> Str("(&(cn=%s))"), USERINFO |-> YamlText(userinfo),
     UIDTYPE |-> "uid", NOREFERRALS |-> TRUE, CACERTIFICATE |-> Str("cert a"),
     SCOPE |-> Str("LEVEL"), AUTHTYPE |-> "NTLM"]

ConfigB ==
    [LDAPURI |-> Str("ldaps://b"), LDAPBASE |-> Str("o=b"),
     BINDDN |-> Str("cn=admin,o=b"), BINDPW |-> Str("pwb"),
     TIMEOUT |-> CStr(<<"1", "0">>), SIZELIMIT |-> CStr(<<"2">>),
     LOGINNAMEATTRIBUTE |-> Str("uid"), LDAPSEARCHFILTER |-> Str("(uid=*)"),
     LDAPFILTER |-> Str("(&(uid=%s))"), USERINFO |-> YamlText([username |-> "uid"]),
     UIDTYPE |-> "objectGUID", NOREFERRALS |-> FALSE, CACERTIFICATE |-> Str("cert b"),
     SCOPE |-> Str("BASE"), AUTHTYPE |-> "SASL Digest-MD5"]

\* the configurations every conversion of loadConfig accepts: complete, or
\* one parameter missing
ValidConfigs ==
    {ConfigA, ConfigB}
    \cup {Without(c, key) : c \in {ConfigA, ConfigB}, key \in DOMAIN ConfigA}

\* and those with a parameter that float(), int() or yaml.load() refuses
Configs ==
    ValidConfigs
    \cup UNION {{[c EXCEPT !.TIMEOUT = CStr(<<"s">>)],
                 [c EXCEPT !.SIZELIMIT = CStr(<<"x">>)],
                 [c EXCEPT !.USERINFO = YamlBroken]} : c \in {ConfigA, ConfigB}}

\* the fields of an object that has loaded config
Loaded(config) ==
    loadConfigFields(
        [uri |-> Str(""), basedn |-> Str(""), binddn |-> Str(""), bindpw |-> Str(""),
         timeout |-> PyInt(DefaultTimeout), sizelimit |-> PyInt(DefaultSizeLimit),
         loginname_attribute |-> Str(""), searchfilter |-> Str(""),
         reversefilter |-> Str(""), userinfo |-> <<>>, uidtype |-> "",
         noreferrals |-> FALSE, certificate |-> Str(""), scope |-> Str("SUBTREE"),
         resolverId |-> Str(""), authtype |-> ""],
        config).val

\* loadConfig(config) on an object that has loaded earlier: the fields of
\* the state are those the call leaves
LoadConfigAgain ==
    /\ res.op = "none"
    /\ \E earlier \in ValidConfigs, config \in Configs :
           LET o == loadConfigFields(Loaded(earlier), config) IN
           /\ res' = [NoRes EXCEPT !.op = "loadConfig", !.args = <<earlier, config>>,
                                   !.exc = o.exc, !.val = o.val]
           /\ authtype' = o.val.authtype
           /\ uidtype' = o.val.uidtype
           /\ noreferrals' = o.val.noreferrals
           /\ sizelimit' = o.val.sizelimit.n
    /\ UNCHANGED <<i_am_bound, l, other>>

NextConfig == LoadConfigAgain \/ Return

SpecConfig == InitStatic /\ [][NextConfig]_vars

\* the operations that reach create_connection, on one object: _bind by way
\* of a lookup, checkPass and testconnection, between loads of a configuration
\* testconnection is a class method and reads no field: it is called on the
\* class while the object has no session yet
TestConnectionOfClass ==
    /\ i_am_bound = FALSE
    /\ l = NoConn
    /\ TestConnection

NextAuth == loadConfig \/ GetUsername \/ CheckPass \/ TestConnectionOfClass \/ Return

SpecAuth == Init /\ [][NextAuth]_vars

(***************************************************************************)
(* Two objects of the class, used in turn.                                 *)
(***************************************************************************)
\* the caller turns to the other object: its fields become the ones the
\* calls act on
Switch ==
    /\ res.op = "none"
    /\ i_am_bound' = other.i_am_bound
    /\ l' = other.l
    /\ authtype' = other.authtype
    /\ uidtype' = other.uidtype
    /\ noreferrals' = other.noreferrals
    /\ sizelimit' = other.sizelimit
    /\ other' = [i_am_bound |-> i_am_bound, l |-> l, authtype |-> authtype,
                 uidtype |-> uidtype, noreferrals |-> noreferrals,
                 sizelimit |-> sizelimit]
    /\ UNCHANGED res

\* loadConfig of the two objects: a supported mode, by DN or by attribute
LoadConfigOfTwo == loadConfigFrom({"Simple"}, {"DN", "uid"}, {FALSE}, {MaxSizeLimit})

NextTwo ==
    \/ LoadConfigOfTwo
    \/ GetUsername
    \/ CheckPass
    \/ TestConnectionOfClass
    \/ Return
    \/ Switch

SpecTwo == InitStatic /\ [][NextTwo]_vars

(***************************************************************************)
(* What the log of the last call shows.                                    *)
(***************************************************************************)
Ev == res.ev
Calls(names) == {i \in 1..Len(Ev) : Ev[i].call \in names}
ConnectionCalls == {"create_connection", "Connection", "open", "bind"}
SessionCalls == {"Connection", "open", "bind", "unbind"}
Lookups == {"getUserInfo", "getUsername", "getUserId", "getUserList"}

\* entries of a response that are real entries, not referrals
RealEntries(response) == SelectSeq(response, LAMBDA e : e.type = "searchResEntry")

\* the log ev starts with an attempt to bind the service account
ServiceBindAttempted(ev) ==
    /\ Len(ev) >= 1
    /\ ev[1].call = "create_connection"
    /\ ev[1].data.user = binddn

\* that attempt did not end in an accepted bind: the authentication mode is
\* not supported, open or bind raised, or the bind was rejected
ServiceBindFailed(ev) ==
    /\ ServiceBindAttempted(ev)
    /\ ~(Len(ev) >= 4 /\ ev[4].call = "bind" /\ ev[4].data = "true")

\* the bind of the end user in the last checkPass was accepted
UserBindAccepted ==
    \E i \in Calls({"bind"}) :
        /\ Ev[i].conn = res.ul.id
        /\ Ev[i].data = "true"
        /\ \E j \in Calls({"Connection"}) :
               /\ j < i
               /\ Ev[j].conn = res.ul.id
               /\ Ev[j].data.user = res.bind_user
               /\ Ev[j].data.password = res.args[2]

(***************************************************************************)
(* C1: checkPass never raises to its caller: whatever the uid, the         *)
(* password, the configuration and the directory do, it returns a boolean. *)
(* Fails: resolving uid to a bind identity runs outside the try block.     *)
(***************************************************************************)
C1_CheckPassNeverRaises ==
    res.op = "checkPass" => res.exc = "" /\ res.val \in BOOLEAN

(***************************************************************************)
(* C2 as stated: checkPass with an empty resolved bind identity returns    *)
(* false and makes no connection attempt at all during the call, whatever  *)
(* the identifier type.                                                    *)
(***************************************************************************)
C2_EmptyIdentity == res.op = "checkPass" /\ res.exc = "" /\ ~Truthy(res.bind_user)

C3_UserSessionClosed ==
    res.op = "checkPass" => res.ul.st \notin {"open", "bound"}

(***************************************************************************)
(* C4: checkPass returns true if and only if a bind as the resolved        *)
(* end-user identity with the supplied password succeeded in that call.    *)
(* Fails in one direction: an error in unbind() after an accepted bind is  *)
(* caught and turned into False.                                           *)
(***************************************************************************)
C4_TrueIffBindAccepted ==
    res.op = "checkPass" /\ res.exc = "" => (res.val = TRUE <=> UserBindAccepted)

(***************************************************************************)
(* C5: checkPass binds the end user on a connection created for that       *)
(* call.  It never binds, replaces or closes the cached service-account    *)
(* session: a facade that is Bound keeps self.l as it is, and whenever the *)
(* facade is Bound after checkPass, self.l is the session bound as the     *)
(* service account.                                                        *)
(***************************************************************************)
C5_CachedSessionUntouched ==
    [][res'.op = "checkPass" =>
          /\ (i_am_bound =>
                 /\ i_am_bound' /\ l' = l
                 /\ \A i \in 1..Len(res'.ev) :
                        res'.ev[i].call \in SessionCalls => res'.ev[i].conn # l.id)
          /\ (res'.ul # NoConn => res'.ul.id # l'.id)
          /\ \A i \in 1..Len(res'.ev) :
                 /\ res'.ev[i].call = "unbind" => res'.ev[i].conn # l'.id
                 /\ (res'.ev[i].call = "Connection" /\ res'.ev[i].conn = l'.id)
                        => res'.ev[i].data.user = binddn
          /\ (i_am_bound' => l'.st = "bound" /\ l'.user = binddn)
      ]_vars

\* checkPass bound the end user while the facade held a bound session
C5_Witness ==
    /\ res.op = "checkPass" /\ res.exc = "" /\ res.val = TRUE
    /\ i_am_bound /\ l.st = "bound"
    /\ res.ul.id # 0 /\ res.ul.user = res.bind_user

(***************************************************************************)
(* C6: the list getUserList returns never has more than sizelimit records, *)
(* whatever the stream the backend delivers.                               *)
(***************************************************************************)
C6_AtMostSizeLimit ==
    res.op = "getUserList" /\ res.exc = "" => Len(res.val) <= sizelimit

\* the backend streamed more entries than the limit and the list is full
C6_Witness ==
    /\ res.op = "getUserList" /\ res.exc = ""
    /\ sizelimit > 0
    /\ Len(Ev[Len(Ev)].data.response) > sizelimit
    /\ Len(res.val) = sizelimit

(***************************************************************************)
(* C7: when every entry of the stream decodes, getUserList returns exactly *)
(* min(sizelimit, n) records: those of the first min(sizelimit, n)         *)
(* entries, in stream order.                                               *)
(***************************************************************************)
Min(a, b) == IF a <= b THEN a ELSE b

C7_FirstEntriesInOrder ==
    res.op = "getUserList" /\ res.exc = "" =>
        LET s == Ev[Len(Ev)].data.response IN
        (\A i \in 1..Len(s) : DecodeEntry(s[i]).exc = "") =>
            /\ Len(res.val) = Min(sizelimit, Len(s))
            /\ \A i \in 1..Len(res.val) : res.val[i] = DecodeEntry(s[i]).val

\* three decodable entries streamed, limit two: two records returned
C7_Witness ==
    /\ res.op = "getUserList" /\ res.exc = ""
    /\ sizelimit = 2
    /\ Ev[Len(Ev)].data.response = <<EBob, EAlice, EBob>>
    /\ uidtype = "uid"
    /\ Len(res.val) = 2
    /\ res.val[1].username = Str("bob") /\ res.val[2].username = Str("alice")

(***************************************************************************)
(* C8: a unique-key lookup that finds more than one entry fails with the   *)
(* integrity fault and returns nothing: in getUserInfo (and getUsername),  *)
(* in getUserId and in the resolution of uid that checkPass starts with.   *)
(***************************************************************************)
C8_MoreThanOneIsAFault ==
    res.op \in {"getUserInfo", "getUsername", "getUserId", "checkPass"} =>
        \A i \in Calls({"search"}) :
            (Ev[i].data.result = "ok" /\ Len(RealEntries(Ev[i].data.response)) > 1)
                => res.exc = "Found more than one object"

\* getUserId found two real entries
C8_Witness ==
    /\ res.op = "getUserId"
    /\ \E i \in Calls({"search"}) : Ev[i].data.response = <<EAlice, EBob>>
    /\ res.exc = "Found more than one object"

(***************************************************************************)
(* C9: once the facade is Bound it stays Bound with the same cached        *)
(* session: no later call creates, opens or binds a service-account        *)
(* connection, and every search of a lookup runs on the cached session.    *)
(***************************************************************************)
C9_BindOnce ==
    [][i_am_bound =>
          /\ i_am_bound' /\ l' = l
          /\ \A i \in 1..Len(res'.ev) :
                 /\ res'.ev[i].call \in SessionCalls => res'.ev[i].conn # l.id
                 /\ res'.ev[i].call = "create_connection" => res'.ev[i].data.user # binddn
                 /\ res'.ev[i].call \in {"search", "paged_search"} => res'.ev[i].conn = l.id
          /\ (res'.op \in Lookups =>
                 \A i \in 1..Len(res'.ev) : res'.ev[i].call \notin ConnectionCalls)
      ]_vars

\* a lookup ran on the session an earlier call had bound
C9_Witness ==
    /\ res.op = "getUserList" /\ res.exc = ""
    /\ i_am_bound
    /\ Len(Ev) = 1 /\ Ev[1].call = "paged_search" /\ Ev[1].conn = l.id

(***************************************************************************)
(* C10: a call that needs the session of an Unbound facade attempts the    *)
(* service-account bind; when that attempt fails (the connection cannot be *)
(* created or opened, or the bind is rejected or raises) the facade stays  *)
(* Unbound, the call raises and issues no search.  The facade being still  *)
(* Unbound, the next call attempts the bind again.                         *)
(***************************************************************************)
C10_FailedBindStaysUnbound ==
    [][/\ (~i_am_bound /\ res'.op \in Lookups) => ServiceBindAttempted(res'.ev)
       /\ (~i_am_bound /\ res'.op # "none" /\ ServiceBindFailed(res'.ev)) =>
              /\ ~i_am_bound'
              /\ res'.exc # ""
              /\ \A i \in 1..Len(res'.ev) : res'.ev[i].call \notin {"search", "paged_search"}
      ]_vars

\* a second attempt after a failed one: a new connection, rejected again
C10_Witness ==
    /\ res.op = "getUserInfo"
    /\ res.exc = "Wrong credentials"
    /\ ~i_am_bound
    /\ l.id = 2 /\ l.st = "open"
    /\ ServiceBindFailed(Ev)

(***************************************************************************)
(* C13: getUserList with a criterion on accountExpires that asks for the   *)
(* accounts not expired, answered by a directory that evaluates the        *)
(* emitted filter, returns no account whose expiry time is non-zero and    *)
(* before the current time, and returns every account whose expiry time    *)
(* is zero (it never expires), as far as the size limit allows.            *)
(* Fails: the second clause of the disjunction is (attr!=0), not (attr=0). *)
(***************************************************************************)
\* the last call listed the accounts not expired, the directory answered
\* with what the filter selects, and the size limit did not cut the list
C13_NotExpiredListing ==
    /\ res.op = "getUserList" /\ res.exc = ""
    /\ "accountExpires" \in DOMAIN res.args[1]
    /\ res.args[1].accountExpires \notin {Str("1"), PyInt(1)}
    /\ Ev[Len(Ev)].data.response = DirectorySearch(Ev[Len(Ev)].data.request.search_filter)
    /\ Len(res.val) < sizelimit

C13_NotExpiredExcludesPastIncludesNever ==
    C13_NotExpiredListing =>
        /\ \A i \in 1..Len(res.val) :
               ~(/\ res.val[i].accountExpires.n # 0
                 /\ res.val[i].accountExpires.n < AdTimestampNow)
        /\ \A j \in 1..Len(Directory) :
               (Directory[j].attributes.accountExpires = PyInt(0)
                /\ DecodeEntry(Directory[j]).exc = "")
                   => \E i \in 1..Len(res.val) : res.val[i] = DecodeEntry(Directory[j]).val

(***************************************************************************)
(* C14: an entry of the stream that fails to decode in getUserList (the    *)
(* attribute mapping or the identifier extraction raises) is skipped and   *)
(* nothing else: it adds no record, whole or partial, the enumeration goes *)
(* on, and the result is the records of the decodable entries, in stream   *)
(* order, up to the size limit.                                            *)
(***************************************************************************)
Decodable(s) == SelectSeq(s, LAMBDA e : DecodeEntry(e).exc = "")

C14_DecodeFailureSkipsOneEntry ==
    res.op = "getUserList" /\ res.exc = "" =>
        LET good == Decodable(Ev[Len(Ev)].data.response) IN
        /\ Len(res.val) = Min(sizelimit, Len(good))
        /\ \A i \in 1..Len(res.val) : res.val[i] = DecodeEntry(good[i]).val

\* an entry that fails to decode between two that decode: both are returned
C14_Witness ==
    /\ res.op = "getUserList" /\ res.exc = ""
    /\ uidtype = "objectGUID" /\ sizelimit = 2
    /\ Ev[Len(Ev)].data.response = <<EAlice, EBob, EAlice>>
    /\ DecodeEntry(EBob).exc # ""
    /\ Len(res.val) = 2
    /\ res.val[1] = DecodeEntry(EAlice).val /\ res.val[2] = DecodeEntry(EAlice).val

(***************************************************************************)
(* The grammar [scheme://]host[:port] of an endpoint URI.                  *)
(***************************************************************************)
IsHostText(h) == h # <<>> /\ \A i \in 1..Len(h) : h[i] \notin {":", "/"}
IsPortText(p) == p # <<>> /\ \A i \in 1..Len(p) : \E k \in 1..10 : Digits[k] = p[i]
IsSchemeText(s) == lower(s) \in {<<"l", "d", "a", "p">>, <<"l", "d", "a", "p", "s">>}

\* u is scheme://host when j = Len(u), and scheme://host:port otherwise,
\* the scheme ending at i and the host at j
IsSchemeForm(u, i, j) ==
    /\ i + 4 <= j
    /\ u[i + 1] = ":" /\ u[i + 2] = "/" /\ u[i + 3] = "/"
    /\ j = Len(u) \/ u[j + 1] = ":"
    /\ IsSchemeText(SubSeq(u, 1, i))
    /\ IsHostText(SubSeq(u, i + 4, j))
    /\ j = Len(u) \/ IsPortText(SubSeq(u, j + 2, Len(u)))

\* u is host:port, the host ending at j
IsHostPortForm(u, j) ==
    /\ j + 1 <= Len(u) /\ u[j + 1] = ":"
    /\ IsHostText(SubSeq(u, 1, j))
    /\ IsPortText(SubSeq(u, j + 2, Len(u)))

WellFormedUri(u) ==
    \/ IsHostText(u)
    \/ \E j \in 1..Len(u) : IsHostPortForm(u, j)
    \/ \E i \in 1..Len(u), j \in 1..Len(u) : IsSchemeForm(u, i, j)

(***************************************************************************)
(* C15: for a URI ldap://host, ldaps://host, ldap://host:port or           *)
(* ldaps://host:port, the scheme in any letter case, split_uri returns the *)
(* host without slashes, secure = TRUE exactly for ldaps, and the port as  *)
(* an integer, or None when there is none; a bare host gives               *)
(* (host, None, FALSE).                                                    *)
(***************************************************************************)
C15_SchemeForms ==
    res.op = "split_uri" =>
        LET u == res.args[1].c IN
        /\ \A i \in 1..Len(u), j \in 1..Len(u) :
               IsSchemeForm(u, i, j) =>
                   /\ res.exc = ""
                   /\ res.val = <<CStr(SubSeq(u, i + 4, j)),
                                  IF j = Len(u) THEN None
                                  ELSE PyInt(DecimalValue(SubSeq(u, j + 2, Len(u)))),
                                  lower(SubSeq(u, 1, i)) = <<"l", "d", "a", "p", "s">> >>
        /\ IsHostText(u) => res.exc = "" /\ res.val = <<CStr(u), None, FALSE>>

\* LdapS://h:10 gives host h, port 10, secure
C15_Witness ==
    /\ res.op = "split_uri"
    /\ res.args[1] = CStr(<<"L", "d", "a", "p", "S", ":", "/", "/", "h", ":", "1", "0">>)
    /\ res.exc = ""
    /\ res.val = <<CStr(<<"h">>), PyInt(10), TRUE>>

(***************************************************************************)
(* C16: for host:port without a scheme, split_uri returns that host, that  *)
(* port and secure = FALSE.                                                *)
(* Fails: with two elements the code takes the first for the scheme and    *)
(* the second for the host.                                                *)
(***************************************************************************)
C16_HostPort ==
    res.op = "split_uri" =>
        LET u == res.args[1].c IN
        \A j \in 1..Len(u) :
            IsHostPortForm(u, j) =>
                /\ res.exc = ""
                /\ res.val = <<CStr(SubSeq(u, 1, j)),
                               PyInt(DecimalValue(SubSeq(u, j + 2, Len(u)))), FALSE>>

(***************************************************************************)
(* C17: for a malformed URI split_uri does not fail: it returns the whole  *)
(* text as the host, no port and secure = FALSE.                           *)
(* Fails: a text of two or three ":"-separated elements is taken apart     *)
(* whatever the elements are, and a third element that is no number makes  *)
(* int() raise.                                                            *)
(***************************************************************************)
C17_MalformedIsHost ==
    (res.op = "split_uri" /\ ~WellFormedUri(res.args[1].c)) =>
        res.exc = "" /\ res.val = <<res.args[1], None, FALSE>>

(***************************************************************************)
(* C12: with referral-following disabled (noreferrals) _trim_result        *)
(* returns exactly the results of type searchResEntry, in their order, and *)
(* none of type searchResRef; with referral-following enabled it returns   *)
(* the list it was given.  No real entry is dropped in either mode.        *)
(***************************************************************************)
C12_TrimKeepsRealEntries ==
    res.op = "_trim_result" =>
        LET result_list == res.args[1] IN
        /\ noreferrals =>
               /\ res.val = RealEntries(result_list)
               /\ \A i \in 1..Len(res.val) : res.val[i].type # "searchResRef"
        /\ ~noreferrals => res.val = result_list
        /\ RealEntries(res.val) = RealEntries(result_list)

\* a referral between two real entries is removed, the entries stay
C12_Witness ==
    /\ res.op = "_trim_result"
    /\ noreferrals
    /\ res.args[1] = <<EAlice, ERef, EBob>>
    /\ res.val = <<EAlice, EBob>>

(***************************************************************************)
(* C19 as stated: _ldap_attributes_to_user_object keeps a list-valued      *)
(* attribute whole when its field is mobile, gives the first element of    *)
(* any other list-valued attribute, and gives a single value as it is.     *)
(***************************************************************************)
\* what the claim says field map_k gets from the value ldap_v
C19_Expected(map_k, ldap_v) ==
    IF ldap_v.t = "list" /\ map_k # "mobile" THEN ldap_v.e[1] ELSE ldap_v

C19_ListOnlyForMobile ==
    res.op = "_ldap_attributes_to_user_object" =>
        LET userinfo_ == res.args[1]
            attributes == res.args[2]
        IN
        \A map_k \in DOMAIN userinfo_ :
            userinfo_[map_k] \in DOMAIN attributes =>
                /\ res.exc = ""
                /\ res.val[map_k] = C19_Expected(map_k, attributes[userinfo_[map_k]])

(***************************************************************************)
(* C19 amended: the rule holds for every directory attribute other than    *)
(* objectGUID.  The objectGUID attribute is decoded first, whatever its    *)
(* field: the field gets the GUID text of the first element, and a value   *)
(* that is no list of a 16-byte value makes the whole conversion fail.     *)
(***************************************************************************)
C19_ListOnlyForMobileButGuid ==
    res.op = "_ldap_attributes_to_user_object" =>
        LET userinfo_ == res.args[1]
            attributes == res.args[2]
            present == {map_k \in DOMAIN userinfo_ : userinfo_[map_k] \in DOMAIN attributes}
            guids == {map_k \in present : userinfo_[map_k] = "objectGUID"}
            GuidText(map_k) ==
                IF attributes.objectGUID.t = "list"
                THEN UUIDFromBytesLe(attributes.objectGUID.e[1])
                ELSE [exc |-> "ValueError", val |-> None]
        IN
        /\ res.exc = "" <=> \A map_k \in guids : GuidText(map_k).exc = ""
        /\ res.exc = "" =>
               \A map_k \in present :
                   res.val[map_k] =
                       IF map_k \in guids THEN GuidText(map_k).val
                       ELSE C19_Expected(map_k, attributes[userinfo_[map_k]])

\* the phone numbers stay a list, the two names collapse to the first
C19_Witness ==
    /\ res.op = "_ldap_attributes_to_user_object"
    /\ res.args = <<userinfo, EAlice.attributes>>
    /\ res.exc = ""
    /\ res.val.mobile = List(<<Str("+1"), Str("+2")>>)
    /\ res.val.username = Str("alice")

(***************************************************************************)
(* C20: the record _ldap_attributes_to_user_object returns has one key for *)
(* each field of the mapping whose directory attribute is among the raw    *)
(* attributes and no other key: a field whose attribute is absent is left  *)
(* out (no None in its place), an attribute that is not mapped shows       *)
(* nowhere, and two fields mapped to one attribute are both filled.        *)
(***************************************************************************)
C20_KeysAreMappedPresentFields ==
    res.op = "_ldap_attributes_to_user_object" /\ res.exc = "" =>
        LET userinfo_ == res.args[1]
            attributes == res.args[2]
        IN
        /\ DOMAIN res.val =
               {map_k \in DOMAIN userinfo_ : userinfo_[map_k] \in DOMAIN attributes}
        /\ \A map_k \in DOMAIN res.val : res.val[map_k] # None

\* two fields mapped to cn are both filled, the phone field is left out,
\* the attributes uid and objectGUID are not in the record
C20_Witness ==
    /\ res.op = "_ldap_attributes_to_user_object" /\ res.exc = ""
    /\ res.args =
           <<[username |-> "cn", givenname |-> "cn", mobile |-> "telephoneNumber"],
             EBob.attributes>>
    /\ DOMAIN res.val = {"username", "givenname"}
    /\ res.val.username = Str("bob") /\ res.val.givenname = Str("bob")

(***************************************************************************)
(* C18: _escape_loginname replaces every \ * ( ) / by its hex escape       *)
(* (\5c \2a \28 \29 \2f) and leaves every other character as it is; the    *)
(* result has no * ( ) / left, every backslash in it starts one of the     *)
(* five escapes, and two different login names never give the same result. *)
(***************************************************************************)
EscapeOf(ch) ==
    CASE ch = "\\" -> <<"\\", "5", "c">>
      [] ch = "*" -> <<"\\", "2", "a">>
      [] ch = "(" -> <<"\\", "2", "8">>
      [] ch = ")" -> <<"\\", "2", "9">>
      [] ch = "/" -> <<"\\", "2", "f">>
      [] OTHER -> <<ch>>

\* every character of s replaced on its own
EscapedCharByChar(s) == Concat([i \in 1..Len(s) |-> EscapeOf(s[i])])

\* no metacharacter is left in e and every backslash starts an escape
IsEscapedText(e) ==
    \A i \in 1..Len(e) :
        /\ e[i] \notin {"*", "(", ")", "/"}
        /\ e[i] = "\\" =>
               /\ i + 2 <= Len(e)
               /\ SubSeq(e, i, i + 2) \in {EscapeOf(ch) : ch \in {"\\", "*", "(", ")", "/"}}

C18_EscapeIsInjective ==
    res.op = "_escape_loginname" =>
        /\ \A k \in 1..2 :
               /\ res.val[k].c = EscapedCharByChar(res.args[k].c)
               /\ IsEscapedText(res.val[k].c)
        /\ res.val[1] = res.val[2] => res.args[1] = res.args[2]

\* a*b(c)d/e\f becomes a\2ab\28c\29d\2fe\5cf
C18_Witness ==
    /\ res.op = "_escape_loginname"
    /\ res.args[1] = CStr(<<"a", "*", "b", "(", "c", ")", "d", "/", "e", "\\", "f">>)
    /\ res.val[1] = CStr(<<"a", "\\", "2", "a", "b", "\\", "2", "8", "c", "\\", "2", "9",
                           "d", "\\", "2", "f", "e", "\\", "5", "c", "f">>)
    /\ res.args[2] = CStr(<<"*">>)
    /\ res.val[2] = CStr(<<"\\", "2", "a">>)

(***************************************************************************)
(* C11: testconnection never raises.  A fault while the pool is built,     *)
(* the connection made, opened or bound, the mapping parsed or the entries *)
(* enumerated, a missing parameter included, gives (False, description of  *)
(* the fault); the flag is True only when the bind was accepted and the    *)
(* enumeration ran to its end.                                             *)
(***************************************************************************)
\* the parameters testconnection cannot do without
NeededParams == {"LDAPURI", "USERINFO", "UIDTYPE", "LDAPBASE", "LDAPSEARCHFILTER"}

\* the last testconnection met no fault: the parameters are there and of
\* use, every library call succeeded, the bind was accepted, the stream
\* ended and every entry of it gave an identifier
C11_NoFault ==
    LET param == res.args[1] IN
    /\ NeededParams \subseteq DOMAIN param
    /\ float(IF "TIMEOUT" \in DOMAIN param THEN param.TIMEOUT ELSE PyInt(5)).exc = ""
    /\ \A uri \in {CStr(strip(u, " ")) : u \in {split(param.LDAPURI.c, ",")[i]
                        : i \in 1..Len(split(param.LDAPURI.c, ","))}} :
           split_uri(uri).exc = ""
    /\ ("AUTHTYPE" \in DOMAIN param => param.AUTHTYPE \in {"Simple", "NTLM", "SASL Digest-MD5"})
    /\ param.USERINFO.wellformed
    /\ Ev[Len(Ev)].call = "unbind" /\ Ev[Len(Ev)].data = "ok"
    /\ \E i \in Calls({"open"}) : Ev[i].data = "ok"
    /\ \E i \in Calls({"bind"}) : Ev[i].data = "true"
    /\ \E i \in Calls({"paged_search"}) :
           /\ Ev[i].data.result = "ok"
           /\ \A j \in 1..Len(Ev[i].data.response) :
                  _get_uid(Ev[i].data.response[j], param.UIDTYPE).exc = ""
           /\ res.val[2].count = Len(Ev[i].data.response)

C11_TestConnectionNeverRaises ==
    res.op = "testconnection" =>
        /\ res.exc = ""
        /\ res.val[1] \in BOOLEAN
        /\ res.val[1] <=> C11_NoFault
        /\ res.val[1] <=> res.val[2].t = "found"
        /\ ~res.val[1] =>
               /\ res.val[2].t = "repr"
               /\ (\E i \in Calls({"bind"}) : Ev[i].data = "false")
                      => res.val[2].e = "Wrong credentials"
               /\ (Ev # <<>> /\ Ev[Len(Ev)].call = "open" /\ Ev[Len(Ev)].data = "raise")
                      => res.val[2].e = "LDAPSocketOpenError"
               /\ (Ev # <<>> /\ Ev[Len(Ev)].call = "create_connection")
                      => res.val[2].e = "Authtype not supported"

\* the bind was accepted and USERINFO is missing: (False, KeyError)
C11_Witness ==
    /\ res.op = "testconnection"
    /\ res.args[1] = Without(GoodParam, "USERINFO")
    /\ \E i \in Calls({"bind"}) : Ev[i].data = "true"
    /\ res.exc = ""
    /\ res.val = <<FALSE, [t |-> "repr", e |-> "KeyError"]>>

(***************************************************************************)
(* C21: _get_uid(entry, uidtype) returns the entry's DN when uidtype       *)
(* spells "dn" in any letter case; otherwise it returns the value of the   *)
(* attribute named uidtype, the first element when that value is a list;   *)
(* and for uidtype objectGUID it returns the canonical GUID text of the    *)
(* 16 little-endian bytes.                                                 *)
(***************************************************************************)
\* the spellings of "dn"
C21_IsDnName(u) == u \in {"DN", "dn", "Dn", "dN"}

\* the single value of an attribute: the first element of a list
C21_First(a) == IF a.t = "list" THEN a.e[1] ELSE a

\* 8-4-4-4-12 lower-case hexadecimal digits
C21_IsCanonicalText(v) ==
    /\ v.t = "cstr"
    /\ Len(v.c) = 36
    /\ \A i \in 1..36 :
           IF i \in {9, 14, 19, 24} THEN v.c[i] = "-" ELSE HexValue(v.c[i]) >= 0

\* the hexadecimal digits of the text at the positions that spell the byte
\* at position k of the little-endian value
C21_TextPos(k) ==
    LET field == <<4, 3, 2, 1, 6, 5, 8, 7, 9, 10, 11, 12, 13, 14, 15, 16>>
        n == field[k]
        hyphens == IF n <= 4 THEN 0 ELSE IF n <= 6 THEN 1 ELSE IF n <= 8 THEN 2
                   ELSE IF n <= 10 THEN 3 ELSE 4
    IN 2 * (n - 1) + hyphens + 1

C21_GetUid ==
    res.op = "_get_uid" =>
        LET entry == res.args[1]
            uidtype_ == res.args[2]
        IN
        IF C21_IsDnName(uidtype_)
        THEN "dn" \in DOMAIN entry => res.exc = "" /\ res.val = entry.dn
        ELSE ("attributes" \in DOMAIN entry /\ uidtype_ \in DOMAIN entry.attributes) =>
                 LET first == C21_First(entry.attributes[uidtype_]) IN
                 IF uidtype_ = "objectGUID"
                 THEN (first.t = "bytes" /\ Len(first.b) = 16) =>
                          /\ res.exc = ""
                          /\ C21_IsCanonicalText(res.val)
                          /\ \A k \in 1..16 :
                                 16 * HexValue(res.val.c[C21_TextPos(k)])
                                 + HexValue(res.val.c[C21_TextPos(k) + 1]) = first.b[k]
                 ELSE res.exc = "" /\ res.val = first

\* the GUID of alice, the only element of a list, comes back as text
C21_Witness ==
    /\ res.op = "_get_uid"
    /\ res.exc = ""
    /\ res.args = <<EAlice, "objectGUID">>
    /\ res.val = CStr(<<"1", "2", "3", "4", "5", "6", "7", "8", "-",
                           "9", "0", "a", "b", "-", "c", "d", "e", "f", "-",
                           "0", "1", "2", "3", "-", "4", "5", "6", "7", "8",
                           "9", "a", "b", "c", "d", "e", "f">>)

(***************************************************************************)
(* C22: decoding a 16-byte little-endian objectGUID to the canonical text  *)
(* (_get_uid) and encoding that text again for the lookup filter (_getDN)  *)
(* gives the 16 bytes back; the clause value is their escaped form.        *)
(***************************************************************************)
C22_GuidRoundTrip ==
    res.op = "guid_round_trip" =>
        /\ res.exc = ""
        /\ res.val.bytes_le = res.args[1]
        /\ Len(res.val.clause.c) = 48
        /\ \A k \in 1..16 :
               /\ res.val.clause.c[3 * k - 2] = "\\"
               /\ 16 * HexValue(res.val.clause.c[3 * k - 1])
                  + HexValue(res.val.clause.c[3 * k]) = res.args[1].b[k]

\* a value whose bytes differ within each little-endian field went round
C22_Witness ==
    /\ res.op = "guid_round_trip"
    /\ res.args[1] = Bytes(GuidAlice)
    /\ res.val.text.c[1] = "1"
    /\ res.val.bytes_le = Bytes(GuidAlice)

(***************************************************************************)
(* C23: under an authentication mode other than Simple, NTLM and SASL      *)
(* Digest-MD5 create_connection raises before it constructs a connection,  *)
(* and _bind, checkPass and testconnection make no network call.           *)
(***************************************************************************)
C23_SupportedModes == {"Simple", "NTLM", "SASL Digest-MD5"}

\* the mode the last call worked under
C23_Mode ==
    IF res.op = "testconnection"
    THEN (IF "AUTHTYPE" \in DOMAIN res.args[1] THEN res.args[1].AUTHTYPE ELSE "Simple")
    ELSE authtype

C23_UnderUnsupportedMode ==
    /\ res.op \in {"getUsername", "checkPass", "testconnection"}
    /\ C23_Mode \notin C23_SupportedModes

C23_NetworkCalls == {"open", "bind", "search", "paged_search", "unbind"}

C24_Cuts(s) ==
    LET at == {i \in 1..Len(s) : s[i] = ","} \cup {Len(s) + 1}
        Nth[k \in 1..Cardinality(at)] ==
            CHOOSE i \in at : Cardinality({j \in at : j < i}) = k - 1
    IN Nth

\* the k-th URI of s: the text between two cuts, blanks at the ends left out
C24_Uri(s, k) ==
    LET cuts == C24_Cuts(s)
        from == IF k = 1 THEN 1 ELSE cuts[k - 1] + 1
        to == cuts[k] - 1
        inked == {i \in from..to : s[i] # " "}
    IN IF inked = {} THEN <<>>
       ELSE SubSeq(s, CHOOSE i \in inked : \A j \in inked : i <= j,
                      CHOOSE i \in inked : \A j \in inked : j <= i)

C24_PoolOfList ==
    res.op = "get_serverpool" =>
        LET s == res.args[1].c
            n == Cardinality({i \in 1..Len(s) : s[i] = ","}) + 1
        IN
        /\ res.exc = "" <=> \A k \in 1..n : split_uri(CStr(C24_Uri(s, k))).exc = ""
        /\ res.exc = "" =>
               /\ res.val.strategy = "ROUND_ROBIN"
               /\ res.val.active
               /\ res.val.exhaust
               /\ Len(res.val.servers) = n
               /\ \A k \in 1..n :
                      LET parsed == split_uri(CStr(C24_Uri(s, k))).val
                          server == res.val.servers[k]
                      IN /\ <<server.host, server.port, server.use_ssl>> = parsed
                         /\ server.connect_timeout = res.args[2]

\* a list of two URIs with blanks around the second gives two servers in
\* the order of the list, the second one secure on port 10
C24_Witness ==
    /\ res.op = "get_serverpool"
    /\ res.exc = ""
    /\ res.args[1] = CStr(<<"l", "d", "a", "p", ":", "/", "/", "h", ",",
                            " ", "L", "d", "a", "p", "S", ":", "/", "/", "h",
                            ":", "1", "0", " ">>)
    /\ Len(res.val.servers) = 2
    /\ res.val.servers[1] = [host |-> CStr(<<"h">>), port |-> None, use_ssl |-> FALSE,
                             connect_timeout |-> res.args[2]]
    /\ res.val.servers[2] = [host |-> CStr(<<"h">>), port |-> PyInt(10), use_ssl |-> TRUE,
                             connect_timeout |-> res.args[2]]

(***************************************************************************)
(* C26: a lookup whose search finds no directory entry returns an empty    *)
(* value and does not fail: getUserInfo the empty record, getUsername and  *)
(* getUserId the empty string.                                             *)
(***************************************************************************)
\* the search of the last lookup was answered, and with no entry at all
C26_NoEntryMatched ==
    /\ res.op \in {"getUserInfo", "getUsername", "getUserId"}
    /\ Calls({"search"}) # {}
    /\ \A i \in Calls({"search"}) :
           Ev[i].data.result = "ok" /\ RealEntries(Ev[i].data.response) = <<>>

C26_NoMatchGivesEmpty ==
    C26_NoEntryMatched =>
        /\ res.exc = ""
        /\ res.val = IF res.op = "getUserInfo" THEN <<>> ELSE Str("")

(***************************************************************************)
(* C27: after loadConfig(c) every configuration field equals the value c   *)
(* gives, or the default (TIMEOUT 5, SIZELIMIT 500, UIDTYPE "DN", AUTHTYPE *)
(* "Simple") when c lacks the key; no field keeps the value of an earlier  *)
(* load.                                                                   *)
(***************************************************************************)
\* the number a TIMEOUT or SIZELIMIT text spells
C27_Number(v) == IF v.t = "cstr" THEN PyInt(DecimalValue(v.c)) ELSE v

\* the fields c stands for
C27_FieldsOf(c) ==
    [uri |-> Get(c, "LDAPURI"),
     basedn |-> Get(c, "LDAPBASE"),
     binddn |-> Get(c, "BINDDN"),
     bindpw |-> Get(c, "BINDPW"),
     timeout |-> IF "TIMEOUT" \in DOMAIN c THEN C27_Number(c.TIMEOUT) ELSE PyInt(5),
     sizelimit |-> IF "SIZELIMIT" \in DOMAIN c THEN C27_Number(c.SIZELIMIT) ELSE PyInt(500),
     loginname_attribute |-> Get(c, "LOGINNAMEATTRIBUTE"),
     searchfilter |-> Get(c, "LDAPSEARCHFILTER"),
     reversefilter |-> Get(c, "LDAPFILTER"),
     userinfo |-> IF "USERINFO" \in DOMAIN c THEN c.USERINFO.mapping ELSE <<>>,
     uidtype |-> IF "UIDTYPE" \in DOMAIN c THEN c.UIDTYPE ELSE "DN",
     noreferrals |-> IF "NOREFERRALS" \in DOMAIN c THEN c.NOREFERRALS ELSE FALSE,
     certificate |-> Get(c, "CACERTIFICATE"),
     scope |-> IF "SCOPE" \in DOMAIN c THEN c.SCOPE ELSE Str("SUBTREE"),
     resolverId |-> Get(c, "LDAPURI"),
     authtype |-> IF "AUTHTYPE" \in DOMAIN c THEN c.AUTHTYPE ELSE "Simple"]

\* the parameters of c that loadConfig can read as they are given
C27_Readable(c) ==
    /\ "TIMEOUT" \in DOMAIN c => c.TIMEOUT # CStr(<<"s">>)
    /\ "SIZELIMIT" \in DOMAIN c => c.SIZELIMIT # CStr(<<"x">>)
    /\ "USERINFO" \in DOMAIN c => c.USERINFO.wellformed

\* as stated: whatever c is, no field of the object is older than c
C27_NoFieldOfEarlierLoad ==
    res.op = "loadConfig" =>
        \A f \in DOMAIN res.val :
            \/ res.val[f] = C27_FieldsOf(res.args[2])[f]
            \/ ~C27_Readable(res.args[2]) /\ f \in {"timeout", "sizelimit", "userinfo"}

(***************************************************************************)
(* C28: the password given to checkPass is in no log record the resolver   *)
(* writes, whether the check succeeds or fails, and the caller of          *)
(* checkPass gets a boolean and nothing about the reason of a failure.     *)
(***************************************************************************)
\* no record of the last call holds the password among its values
C28_PasswordNotLogged ==
    \A i \in 1..Len(res.logs) :
        \A k \in 1..Len(res.logs[i].parts) : res.logs[i].parts[k] # res.args[2]

C28_NoPasswordNoReason ==
    res.op = "checkPass" =>
        /\ C28_PasswordNotLogged
        /\ res.exc = ""
        /\ res.val \in BOOLEAN

(***************************************************************************)
(* C29: a connection-level failure during getUserList reaches the caller:  *)
(* when the bind of the service account fails, or the paged stream fails   *)
(* while getUserList reads it, getUserList raises; it never returns the    *)
(* records gathered so far, or an empty list, in place of the failure.     *)
(***************************************************************************)
\* the loop asked the stream s for an entry beyond its last one: it never
\* stopped at the size limit
C29_ReadToTheEnd(s) ==
    s = <<>> \/ Len(Decodable(SubSeq(s, 1, Len(s) - 1))) < sizelimit

C29_FailurePropagates ==
    res.op = "getUserList" =>
        /\ ServiceBindFailed(Ev) =>
               /\ res.exc \in {"Authtype not supported", "LDAPSocketOpenError",
                               "LDAPException", "Wrong credentials"}
               /\ Calls({"paged_search"}) = {}
        /\ \A i \in Calls({"paged_search"}) :
               Ev[i].data.result = "raise" =>
                   IF C29_ReadToTheEnd(Ev[i].data.response)
                   THEN res.exc = "LDAPException"
                   ELSE /\ res.exc = ""
                        /\ Len(res.val) = sizelimit
                        /\ res.fetched <= Len(Ev[i].data.response)

\* the stream fails after an entry that was decoded, below the size limit:
\* the caller gets the failure, not the one record
C29_Witness ==
    /\ res.op = "getUserList"
    /\ res.exc = "LDAPException"
    /\ sizelimit = 2
    /\ Calls({"paged_search"}) # {}
    /\ Ev[Len(Ev)].call = "paged_search"
    /\ Ev[Len(Ev)].data.result = "raise"
    /\ Ev[Len(Ev)].data.response = <<EAlice>>
    /\ uidtype = "uid"

(***************************************************************************)
(* C30: objects of the class share no state that changes: whatever is      *)
(* called on one object (loadConfig, a lookup with its bind, checkPass,    *)
(* testconnection), the bound flag, the cached session and the             *)
(* configuration of the other object stay as they were, in every order in  *)
(* which a caller uses the two objects.                                    *)
(***************************************************************************)
\* the fields of the object the calls act on
C30_Self ==
    [i_am_bound |-> i_am_bound, l |-> l, authtype |-> authtype, uidtype |-> uidtype,
     noreferrals |-> noreferrals, sizelimit |-> sizelimit]

\* a step changes the other object only by the caller turning to it, and
\* then the two objects trade places unchanged
C30_OtherObjectUntouched ==
    [][\/ other' = other
       \/ res.op = "none" /\ res'.op = "none" /\ other' = C30_Self /\ C30_Self' = other]_vars

\* a call has bound the one object by attribute while the other object is
\* bound by DN, each with a session of its own
C30_Witness ==
    /\ res.op = "checkPass"
    /\ i_am_bound /\ l.st = "bound" /\ uidtype = "uid"
    /\ other.i_am_bound /\ other.l.st = "bound" /\ other.uidtype = "DN"

(***************************************************************************)
(* C31: in NTLM mode, when the forward lookup of uid gives no username     *)
(* (no entry, or an entry without one), checkPass takes the bind identity  *)
(* as empty: it returns False and opens no session for the end user.       *)
(***************************************************************************)
\* the last checkPass ran in NTLM mode and the lookup gave no username
C31_NoUsername ==
    /\ res.op = "checkPass"
    /\ authtype = "NTLM"
    /\ res.exc = ""
    /\ res.bind_user.t = "ntlm"
    /\ res.bind_user.account.t = "none"

C31_NtlmNoUsernameFailsClosed ==
    C31_NoUsername =>
        /\ res.val = FALSE
        /\ res.ul = NoConn
        /\ \A i \in Calls({"Connection"}) : Ev[i].data.user.t # "ntlm"

(***************************************************************************)
(* C32: getUserList stops reading the paged stream as soon as it has       *)
(* sizelimit records: after the record number sizelimit is appended it     *)
(* asks the stream for no further entry.                                   *)
(***************************************************************************)
\* how many entries of s are read until sizelimit of them are decoded
C32_Needed(s) ==
    IF sizelimit = 0 THEN 0
    ELSE CHOOSE i \in 1..Len(s) :
             /\ Len(Decodable(SubSeq(s, 1, i))) = sizelimit
             /\ \A j \in 1..(i - 1) : Len(Decodable(SubSeq(s, 1, j))) < sizelimit

\* the stream of the last getUserList has entries left when the limit is
\* reached
C32_LimitReachedEarly ==
    /\ res.op = "getUserList"
    /\ res.exc = ""
    /\ Calls({"paged_search"}) # {}
    /\ LET s == Ev[Len(Ev)].data.response IN
       /\ Len(Decodable(s)) >= sizelimit
       /\ C32_Needed(s) < Len(s)

C32_NoEntryBeyondTheLimit ==
    C32_LimitReachedEarly => res.fetched <= C32_Needed(Ev[Len(Ev)].data.response)

(***************************************************************************)
(* C33: with referral-following disabled, getUserList makes no record of a *)
(* referral entry of the stream, and a referral entry neither ends the     *)
(* enumeration, nor counts toward the size limit, nor removes a real       *)
(* entry: the result is the one of the stream without its referrals.       *)
(***************************************************************************)
\* the stream the call read, when it read one that did not fail
C33_Stream == Ev[Len(Ev)].data.response

C33_ListedWithReferrals ==
    /\ res.op = "getUserList"
    /\ noreferrals
    /\ Calls({"paged_search"}) # {}
    /\ Ev[Len(Ev)].data.result = "ok"

C33_ReferralsLeaveNoTrace ==
    C33_ListedWithReferrals =>
        LET real == Decodable(RealEntries(C33_Stream)) IN
        /\ res.exc = ""
        /\ Len(res.val) = Min(sizelimit, Len(real))
        /\ \A i \in 1..Len(res.val) : res.val[i] = DecodeEntry(real[i]).val

\* a referral between two entries, and a limit of two: both entries are in
\* the result
C33_Witness ==
    /\ C33_ListedWithReferrals
    /\ uidtype = "uid" /\ sizelimit = 2
    /\ C33_Stream = <<EAlice, ERef, EBob>>
    /\ res.exc = ""
    /\ Len(res.val) = 2
    /\ res.val[1] = DecodeEntry(EAlice).val /\ res.val[2] = DecodeEntry(EBob).val

(***************************************************************************)
(* C34: the filter getUserList emits is one conjunction of the base filter *)
(* and one clause per criterion: a criterion (k, v) other than             *)
(* accountExpires gives (a=v) with a the attribute mapped to k; an         *)
(* accountExpires criterion compares the mapped attribute with the current *)
(* directory timestamp, with <= when the value is 1 or "1" and with >=     *)
(* otherwise; an empty criteria map gives the base filter alone.           *)
(***************************************************************************)
\* the clause of the filter f made for criterion k of searchDict
C34_IsClauseOf(c, k, searchDict) ==
    IF k = "accountExpires"
    THEN /\ DOMAIN c = {"or"}
         /\ \E cmp \in c.or :
                /\ cmp.attr = userinfo[k]
                /\ cmp.value = PyInt(AdTimestampNow)
                /\ cmp.op = IF searchDict[k] = Str("1") \/ searchDict[k] = PyInt(1)
                            THEN "<=" ELSE ">="
         /\ \A cmp \in c.or : cmp.op \in {"<=", ">="} => cmp.value = PyInt(AdTimestampNow)
         /\ ~ \E x \in c.or, y \in c.or : x.op = "<=" /\ y.op = ">="
    ELSE /\ DOMAIN c = {"attr", "op", "value"}
         /\ c.attr = userinfo[k]
         /\ c.op = "="
         /\ c.value = Str(IF searchDict[k].t = "int"
                          THEN IF searchDict[k].n = 0 THEN "0" ELSE "1"
                          ELSE searchDict[k].s)

C34_FilterIsConjunctionOfCriteria ==
    res.op = "UserListFilter" =>
        LET searchDict == res.args[1]
            f == res.val
        IN
        /\ f.base = searchfilter
        /\ Cardinality(f.clauses) <= Cardinality(DOMAIN searchDict)
        /\ \A k \in DOMAIN searchDict :
               \E c \in f.clauses : C34_IsClauseOf(c, k, searchDict)
        /\ \A c \in f.clauses :
               \E k \in DOMAIN searchDict : C34_IsClauseOf(c, k, searchDict)
        /\ searchDict = <<>> => f.clauses = {}

\* expired accounts asked for with the number 1, together with a name
C34_Witness ==
    /\ res.op = "UserListFilter"
    /\ DOMAIN res.args[1] = {"accountExpires", "username"}
    /\ res.args[1].accountExpires = PyInt(1)
    /\ res.args[1].username = Str("alice")
    /\ Cardinality(res.val.clauses) = 2
    /\ \E c \in res.val.clauses :
           /\ DOMAIN c = {"or"}
           /\ \E cmp \in c.or : cmp.op = "<=" /\ cmp.attr = "accountExpires"

(***************************************************************************)
(* C35: getUserId(loginName) asks for the entries whose login attribute    *)
(* equals loginName literally: the characters * ( ) \ / of loginName are   *)
(* matched as themselves and never act as a wildcard or as filter syntax,  *)
(* so getUserId("a*") does not find a user whose login name merely begins  *)
(* with "a".                                                               *)
(***************************************************************************)
\* the character an escape \hh of an assertion value stands for
C35_Unescape(hh) ==
    CASE hh = <<"5", "c">> -> "\\"
      [] hh = <<"2", "a">> -> "*"
      [] hh = <<"2", "8">> -> "("
      [] hh = <<"2", "9">> -> ")"
      [] hh = <<"2", "f">> -> "/"
      [] OTHER -> ""

RECURSIVE C35_Matches(_, _)
\* a directory evaluating (attr=v) against the attribute value a: an
\* asterisk in v stands for any text, a parenthesis ends the clause, a
\* backslash starts an escape, every other character stands for itself
C35_Matches(v, a) ==
    IF v = <<>> THEN a = <<>>
    ELSE CASE Head(v) = "*" ->
                  \E k \in 0..Len(a) : C35_Matches(Tail(v), SubSeq(a, k + 1, Len(a)))
           [] Head(v) \in {"(", ")"} -> FALSE
           [] Head(v) = "\\" ->
                  /\ Len(v) >= 3
                  /\ a # <<>>
                  /\ Head(a) = C35_Unescape(SubSeq(v, 2, 3))
                  /\ C35_Matches(SubSeq(v, 4, Len(v)), Tail(a))
           [] OTHER ->
                  /\ a # <<>>
                  /\ Head(a) = Head(v)
                  /\ C35_Matches(Tail(v), Tail(a))

\* the value of the login clause of the search with index i of the call
C35_LoginClause(i) ==
    CHOOSE c \in Ev[i].data.request.search_filter.clauses : c.attr = loginname_attribute

C35_LoginNameIsMatchedLiterally ==
    res.op = "getUserId" =>
        \A i \in Calls({"search"}) :
            LET filter == Ev[i].data.request.search_filter IN
            /\ filter.base = searchfilter
            /\ Cardinality(filter.clauses) = 1
            /\ \A c \in filter.clauses : c.attr = loginname_attribute /\ c.op = "="
            /\ \A name \in Names :
                   C35_Matches(C35_LoginClause(i).value.c, name.c) <=> name = res.args[1]

\* getUserId("a*") has searched, and its clause does not match "a2"
C35_Witness ==
    /\ res.op = "getUserId"
    /\ res.args[1] = CStr(<<"a", "*">>)
    /\ Calls({"search"}) # {}
    /\ \A i \in Calls({"search"}) :
           /\ C35_LoginClause(i).value = CStr(<<"a", "\\", "2", "a">>)
           /\ ~C35_Matches(C35_LoginClause(i).value.c, <<"a", "2">>)
           /\ C35_Matches(C35_LoginClause(i).value.c, <<"a", "*">>)

(***************************************************************************)
(* C36: reverse and forward lookup agree for every identifier type: the    *)
(* identifier getUserId returns for an entry makes getUserInfo (and so     *)
(* getUsername) ask the directory for that entry, in the way _getDN does   *)
(* for checkPass.                                                          *)
(***************************************************************************)
\* the identifier getUserId returns for the entry of alice
C36_IdOf(entry) == _get_uid(entry, uidtype)

\* the identifier clause of the search with index i of the call
C36_IdClause(i) ==
    CHOOSE c \in Ev[i].data.request.search_filter.clauses : c.attr = uidtype

C36_ForwardLookupOfReturnedId ==
    /\ res.op \in {"getUserInfo", "getUsername"}
    /\ Lower(uidtype) # "dn"
    /\ C36_IdOf(EAlice).exc = ""
    /\ res.args[1] = C36_IdOf(EAlice).val
    /\ Calls({"search"}) # {}

\* the forward lookup asks for the value that the attribute of the entry
\* holds, as _getDN does
C36_ForwardAsksForTheEntry ==
    C36_ForwardLookupOfReturnedId =>
        \A i \in Calls({"search"}) :
            /\ \E c \in Ev[i].data.request.search_filter.clauses : c.attr = uidtype
            /\ C36_IdClause(i).value = FilterUidOf(uidtype, res.args[1]).val

(***************************************************************************)
(* C37: the bound state is monotone: once the object is bound, no          *)
(* operation (a lookup, an enumeration, checkPass, loadConfig, a failing   *)
(* search) returns it to unbound or replaces the cached session; loadConfig *)
(* with another configuration leaves the bound flag and the cached session *)
(* as they are, so later operations keep using the session that was bound  *)
(* under the earlier configuration.                                        *)
(***************************************************************************)
\* the step loads a configuration that differs from the one in force
C37_ConfigurationChanged ==
    \/ authtype' # authtype
    \/ uidtype' # uidtype
    \/ noreferrals' # noreferrals
    \/ sizelimit' # sizelimit

C37_BoundIsMonotone ==
    [][/\ C37_ConfigurationChanged => (i_am_bound' = i_am_bound /\ l' = l)
       /\ i_am_bound =>
              /\ i_am_bound'
              /\ l' = l
              /\ l'.st = "bound"
              /\ \A i \in 1..Len(res'.ev) :
                     res'.ev[i].call \in {"search", "paged_search"}
                         => res'.ev[i].conn = l.id
      ]_vars

\* a lookup that succeeded on the cached session under a mode in which the
\* object cannot bind: the session is the one bound before the mode was
\* loaded
C37_Witness ==
    /\ i_am_bound
    /\ authtype = "Kerberos"
    /\ res.op \in Lookups
    /\ res.exc = ""
    /\ Calls({"search", "paged_search"}) # {}
    /\ \A i \in Calls({"search", "paged_search"}) : Ev[i].conn = l.id
    /\ Calls({"Connection"}) = {}

(***************************************************************************)
(* C38: in DN mode getUserInfo(dn) returns the record of the entry whose   *)
(* DN is exactly dn, or an empty record when that entry is absent or fails *)
(* the base filter; entries beneath dn in the directory tree never change  *)
(* the returned record and never cause an integrity fault.                 *)
(***************************************************************************)
\* the entries of the tree whose DN is dn
C38_EntryAt(dn) == SelectSeq(Tree, LAMBDA e : e.dn = dn)

\* getUserInfo has searched in DN mode and the directory has answered
C38_DnLookupAnswered ==
    /\ res.op = "getUserInfo"
    /\ Lower(uidtype) = "dn"
    /\ Calls({"search"}) # {}
    /\ Ev[Len(Ev)].call = "search"
    /\ Ev[Len(Ev)].data.result = "ok"
    /\ Ev[Len(Ev)].data.response = TreeSearch(Ev[Len(Ev)].data.request)

C38_ExactEntryOrEmpty ==
    C38_DnLookupAnswered =>
        /\ res.exc = ""
        /\ LET at == C38_EntryAt(res.args[1]) IN
           IF at = <<>>
           THEN DOMAIN res.val = {}
           ELSE res.val = _ldap_attributes_to_user_object(userinfo, at[1].attributes).val

====
